---- MODULE Spec2Model ----
(***************************************************************************)
(* Verification model of the ML2 simulation engine (package ml2).          *)
(*                                                                         *)
(* Numbers.  A Python float is modelled as a fixed-point integer with      *)
(* SCALE units per 1.0, or as the value NaN.  Multiplication and division  *)
(* rescale and round towards minus infinity.                               *)
(*                                                                         *)
(* Equations.  The registry orders are the full lists of the source.  The  *)
(* solver of the model evaluates the equations of the set Modelled (the    *)
(* ones whose right-hand sides are arithmetic in the panel cells); the     *)
(* columns of the other registry variables are carried as data.            *)
(***************************************************************************)
EXTENDS Integers, Sequences, FiniteSets, TLC

\* ------------------------------------------------------------------ bounds
SCALE == 1000        \* fixed-point units per 1.0
FirstYear == 2015    \* lag-base year of the baseline file
NYears == 3          \* years in the baseline file (lag base + simulation years)
MaxIter == 3         \* largest max_iter the solver is constructed with
MaxCalls == 3        \* simulate calls made per thread
MaxKeys == 1         \* entries of an instrument_values argument of simulate

\* ------------------------------------------------------------------ floats
NaN == 0 - 2000000000

Fx(n, d) == (n * SCALE) \div d

IsNaN(a) == a = NaN

fadd(a, b) == IF IsNaN(a) \/ IsNaN(b) THEN NaN ELSE a + b

fsub(a, b) == IF IsNaN(a) \/ IsNaN(b) THEN NaN ELSE a - b

fmul(a, b) == IF IsNaN(a) \/ IsNaN(b) THEN NaN ELSE (a * b) \div SCALE

\* callers guard b = 0 as the source does
fdiv(a, b) == IF IsNaN(a) \/ IsNaN(b) THEN NaN ELSE (a * SCALE) \div b

\* division by a plain number (x / 1000.0, x / 100.0)
fdivn(a, n) == IF IsNaN(a) THEN NaN ELSE a \div n

fmuln(a, n) == IF IsNaN(a) THEN NaN ELSE a * n

flt(a, b) == ~IsNaN(a) /\ ~IsNaN(b) /\ a < b

fgt(a, b) == flt(b, a)

fle(a, b) == ~IsNaN(a) /\ ~IsNaN(b) /\ a <= b

feq(a, b) == ~IsNaN(a) /\ ~IsNaN(b) /\ a = b

fabs(a) == IF IsNaN(a) THEN NaN ELSE IF a < 0 THEN 0 - a ELSE a

\* Python max(a, b): b when b > a, else a
pymax(a, b) == IF fgt(b, a) THEN b ELSE a

\* Python min(a, b): b when b < a, else a
pymin(a, b) == IF flt(b, a) THEN b ELSE a

\* the one element of a singleton set; { e(x) : x \in {v} } names the value v as x
The(S) == CHOOSE x \in S : TRUE

\* ------------------------------------------------------------------ panel (state.py)
\* A panel is [yrs |-> sequence of years, col |-> [column name -> [year -> float]]].

years(p) == p.yrs

sim_years_desc(p) == [i \in 1..(Len(p.yrs) - 1) |-> p.yrs[Len(p.yrs) + 1 - i]]

sim_years(p) == Tail(p.yrs)

YearSet(p) == {p.yrs[i] : i \in 1..Len(p.yrs)}

columns(p) == DOMAIN p.col

has_var(p, var) == var \in DOMAIN p.col

get(p, var, t) == p.col[var][t]

\* a set that writes the year before t as well
set_year_before_too(p, var, t, value) ==
    LET q == IF var \in DOMAIN p.col
             THEN [p EXCEPT !.col[var][t] = value]
             ELSE [p EXCEPT !.col = (var :> [y \in YearSet(p) |->
                                                IF y = t THEN value ELSE NaN]) @@ p.col]
    IN IF t - 1 \in YearSet(p) THEN [q EXCEPT !.col[var][t - 1] = value] ELSE q

\* df.at[t, var] = value: an absent column is created, NaN in the other years
set(p, var, t, value) ==
    IF var \in DOMAIN p.col
    THEN [p EXCEPT !.col[var][t] = value]
    ELSE [p EXCEPT !.col = (var :> [y \in YearSet(p) |-> IF y = t THEN value ELSE NaN])
                           @@ p.col]

lag(p, var, t) == p.col[var][t - 1]

grt(p, var, t) ==
    LET prev == lag(p, var, t)
    IN  IF feq(prev, 0) THEN 0
        ELSE fmuln(fdiv(fsub(get(p, var, t), prev), prev), 100)

add_var(p, var, default) ==
    IF var \in DOMAIN p.col
    THEN p
    ELSE [p EXCEPT !.col = (var :> [y \in YearSet(p) |-> default]) @@ p.col]

\* ------------------------------------------------------------------ instruments.py
InstrumentSpec(k, d, lo, hi) == [key |-> k, default |-> d, min_val |-> lo, max_val |-> hi]

INSTRUMENTS ==
    << InstrumentSpec("VIG_X",    Fx(0, 1),  Fx(0 - 2000, 1),  Fx(6000, 1)),
       InstrumentSpec("ITPC0R_X", Fx(21, 1), Fx(15, 1),        Fx(27, 1)),
       InstrumentSpec("DTH_X",    Fx(0, 1),  Fx(0 - 10000, 1), Fx(10000, 1)),
       InstrumentSpec("CSSFR_X",  Fx(30, 1), Fx(25, 1),        Fx(40, 1)),
       InstrumentSpec("CSSHR_X",  Fx(13, 1), Fx(10, 1),        Fx(20, 1)),
       InstrumentSpec("TGH_X",    Fx(0, 1),  Fx(0 - 5, 1),     Fx(5, 1)),
       InstrumentSpec("WR_X",     Fx(0, 1),  Fx(0 - 2, 1),     Fx(2, 1)),
       InstrumentSpec("WGRR_X",   Fx(0, 1),  Fx(0 - 2, 1),     Fx(5, 1)),
       InstrumentSpec("NG_X",     Fx(0, 1),  Fx(0 - 40, 1),    Fx(40, 1)),
       InstrumentSpec("ZX_X",     Fx(0, 1),  Fx(0 - 2, 1),     Fx(0, 1)) >>

InstrumentKeys == {INSTRUMENTS[i].key : i \in 1..Len(INSTRUMENTS)}

INSTRUMENT_MAP == [k \in InstrumentKeys |->
                     CHOOSE s \in {INSTRUMENTS[i] : i \in 1..Len(INSTRUMENTS)} : s.key = k]

\* A dict is a sequence of <<key, value>> pairs with distinct keys, in insertion order.
DictKeys(d) == {d[i][1] : i \in 1..Len(d)}

DictGet(d, k) == d[CHOOSE i \in 1..Len(d) : d[i][1] = k][2]

\* dict.update(u): an existing key keeps its position, a new key is appended
RECURSIVE DictUpdate(_, _)
DictUpdate(d, u) ==
    IF u = << >> THEN d
    ELSE LET k == Head(u)[1]
             v == Head(u)[2]
             d1 == IF k \in DictKeys(d)
                   THEN [i \in 1..Len(d) |-> IF d[i][1] = k THEN <<k, v>> ELSE d[i]]
                   ELSE Append(d, <<k, v>>)
         IN  DictUpdate(d1, Tail(u))

get_default_instruments ==
    [i \in 1..Len(INSTRUMENTS) |-> <<INSTRUMENTS[i].key, INSTRUMENTS[i].default>>]

\* One error per offending entry, in the order of the entries.
RECURSIVE validate_instruments(_)
validate_instruments(values) ==
    IF values = << >> THEN << >>
    ELSE LET key == Head(values)[1]
             val == Head(values)[2]
             err == IF key \notin InstrumentKeys
                    THEN << [key |-> key, kind |-> "Unknown instrument"] >>
                    ELSE IF flt(val, INSTRUMENT_MAP[key].min_val)
                            \/ fgt(val, INSTRUMENT_MAP[key].max_val)
                         THEN << [key |-> key, kind |-> "out of range"] >>
                         ELSE << >>
         IN  err \o validate_instruments(Tail(values))

\* the inner loop of apply_instruments: every entry written at one year
RECURSIVE ApplyEntries(_, _, _)
ApplyEntries(p, d, year) ==
    IF d = << >> THEN p
    ELSE The({ ApplyEntries(q, Tail(d), year) :
               q \in { set(IF ~has_var(p, Head(d)[1]) THEN add_var(p, Head(d)[1], 0)
                           ELSE p,
                           Head(d)[1], year, Head(d)[2]) } })

ApplyMappings_none(p, d, year) == p

ApplyMappings(p, d, year) ==
    LET p1 == IF "ITPC0R_X" \in DictKeys(d)
              THEN set(p, "ITPC0R_", year, DictGet(d, "ITPC0R_X")) ELSE p
        p2 == IF "CSSFR_X" \in DictKeys(d)
              THEN set(p1, "CSSFR_", year, fdivn(DictGet(d, "CSSFR_X"), 100)) ELSE p1
    IN  IF "CSSHR_X" \in DictKeys(d)
        THEN set(p2, "CSSHR_", year, fdivn(DictGet(d, "CSSHR_X"), 100)) ELSE p2

RECURSIVE apply_instruments(_, _, _)
apply_instruments(p, instrument_values, yrs) ==
    IF yrs = << >> THEN p
    ELSE The({ apply_instruments(q, instrument_values, Tail(yrs)) :
               q \in { ApplyMappings(ApplyEntries(p, instrument_values, Head(yrs)),
                                     instrument_values, Head(yrs)) } })

\* ------------------------------------------------------------------ parameters.py
ML2Scalars ==
    [ delta |-> Fx(5, 100),        tfp_growth |-> Fx(7, 1000),
      css_emp_rate |-> Fx(30, 100), css_house_rate |-> Fx(13, 100),
      vat_rate |-> Fx(21, 100),    debt_rate |-> Fx(3, 100),
      nat_growth |-> Fx(5, 1000),  debt_gdp |-> Fx(1, 1),
      r_nominal |-> Fx(3, 100),    world_growth |-> Fx(3, 100),
      pm_growth |-> Fx(15, 1000),  pcomp_growth |-> Fx(15, 1000),
      cost_w |-> Fx(65, 100),      cost_pm |-> Fx(35, 100),
      pc0 |-> Fx(1, 1000),         pc1 |-> Fx(70, 100),
      pc2 |-> Fx(20, 100),         pc3 |-> Fx(5, 100),
      pc4 |-> 0 - Fx(10, 100),     pc5 |-> Fx(90, 100),
      pc_vat |-> Fx(38, 100) ]

One == Fx(1, 1)

\* ------------------------------------------------------------------ equations/registry.py
pre_order_swapped ==
    << "TFP_", "NAT_", "NG_", "XWORLD_", "PCOMP_", "PM_", "RMORT_", "RNOM_",
       "ITPC0R_", "CSSFR_", "CSSHR_", "IG_", "TGH_", "DS_" >>

pre_order ==
    << "TFP_", "NAT_", "NG_", "XWORLD_", "PCOMP_", "PM_", "RNOM_", "RMORT_",
       "ITPC0R_", "CSSFR_", "CSSHR_", "IG_", "TGH_", "DS_" >>

inter_order ==
    << "K_", "Y_", "YSTAR_", "YGAP_", "ZKF_", "LH_", "L_", "U_", "UR_", "W_", "WG_",
       "ULC_", "COST_", "PC_", "PIF_", "PIH_", "PIG_", "PX_", "RREAL_", "PROFIT_",
       "CG_", "YDH_", "C_", "IF_", "IH_", "DD_", "X_", "M_", "GDP_", "PGDP_", "GDPN_",
       "GRECEIPTS_", "GEXPENSE_", "D_", "B_" >>

post_order_short ==
    << "I_", "PROD_", "WB_", "DR_", "BR_", "XN_", "MN_", "TB_" >>

post_order ==
    << "I_", "PROD_", "WB_", "DR_", "BR_", "XN_", "MN_", "TB_", "TBR_" >>

all_variables == pre_order \o inter_order \o post_order

\* The equations the model evaluates.  Not in the set: the Cobb-Douglas and
\* log-change equations Y_, YSTAR_, LH_, W_, WG_, PIF_, PIH_, PIG_, PX_, C_,
\* IF_, IH_, X_, M_, and ULC_, COST_, RREAL_, PROFIT_, YDH_ that feed only those.
Modelled ==
    { "TFP_", "NAT_", "NG_", "XWORLD_", "PCOMP_", "PM_", "RNOM_", "RMORT_",
      "ITPC0R_", "CSSFR_", "CSSHR_", "IG_", "TGH_", "DS_",
      "K_", "YGAP_", "ZKF_", "L_", "U_", "UR_", "PC_", "CG_", "DD_", "GDP_", "PGDP_",
      "GDPN_", "GRECEIPTS_", "GEXPENSE_", "D_", "B_",
      "I_", "PROD_", "WB_", "DR_", "BR_", "XN_", "MN_", "TB_", "TBR_" }

InModel(var) == var \in Modelled

PreVars == SelectSeq(pre_order, InModel)

InterVars == SelectSeq(inter_order, InModel)

PostVars == SelectSeq(post_order, InModel)

\* ------------------------------------------------------------------ equations
\* state.get(X, t) if state.has_var(X) else dflt
GetOr(p, var, t, dflt) == IF has_var(p, var) THEN get(p, var, t) ELSE dflt

\* safe_exp(state.dln(var, t)) = exp(clamp(ln(cur / prev), -0.5, 0.5)); dln is 0.0
\* when cur or prev is not positive
SafeExpDln(p, var, t) ==
    LET cur == get(p, var, t)
        prev == lag(p, var, t)
    IN  IF fle(cur, 0) \/ fle(prev, 0) THEN One
        ELSE pymax(Fx(60653, 100000), pymin(Fx(164872, 100000), fdiv(cur, prev)))

\* ln 2
Ln2 == Fx(693147, 1000000)

\* ln of m, SCALE <= m < 2 SCALE: 2 (y + y^3/3 + y^5/5 + y^7/7), y = (m-1)/(m+1)
LogMantissa(m) ==
    LET y == fdiv(m - One, m + One)
        y2 == fmul(y, y)
        y3 == fmul(y, y2)
        y5 == fmul(y3, y2)
        y7 == fmul(y5, y2)
    IN  2 * (y + y3 \div 3 + y5 \div 5 + y7 \div 7)

RECURSIVE LogPositive(_)
LogPositive(x) ==
    IF x >= 2 * One THEN Ln2 + LogPositive(x \div 2)
    ELSE IF x < One THEN LogPositive(2 * x) - Ln2
    ELSE LogMantissa(x)

\* state.dln(var, t): ln(cur) - ln(prev), 0.0 when cur or prev is not positive
dln(p, var, t) ==
    LET cur == get(p, var, t)
        prev == lag(p, var, t)
    IN  IF fle(cur, 0) \/ fle(prev, 0) THEN 0
        ELSE IF IsNaN(cur) \/ IsNaN(prev) THEN NaN
        ELSE LogPositive(cur) - LogPositive(prev)

\* math.exp(x) for -0.5 <= x <= 0.5: 1 + x + x^2/2 + x^3/6 + x^4/24 + x^5/120
ExpSmall(x) ==
    LET x2 == fmul(x, x)
        x3 == fmul(x2, x)
    IN  One + x + x2 \div 2 + x3 \div 6 + fmul(x2, x2) \div 24 + fmul(x3, x2) \div 120

\* safe_exp(x) = math.exp(max(-0.5, min(0.5, x)))
safe_exp(x) == ExpSmall(pymax(0 - Fx(5, 10), pymin(Fx(5, 10), x)))

TFPEquation(p, t) == fmul(lag(p, "TFP_", t), One + ML2Scalars.tfp_growth)

LabourForceEquation(p, t) == fmul(lag(p, "NAT_", t), One + ML2Scalars.nat_growth)

PublicEmploymentEquation(p, t) ==
    fadd(lag(p, "NG_", t), GetOr(p, "NG_X", t, 0))

WorldDemandEquation(p, t) == fmul(lag(p, "XWORLD_", t), One + ML2Scalars.world_growth)

CompetitorPriceEquation(p, t) == fmul(lag(p, "PCOMP_", t), One + ML2Scalars.pcomp_growth)

ImportPriceEquation(p, t) == fmul(lag(p, "PM_", t), One + ML2Scalars.pm_growth)

NominalInterestRateEquation(p, t) == lag(p, "RNOM_", t)

MortgageRateEquation(p, t) ==
    fadd(GetOr(p, "RNOM_", t, ML2Scalars.r_nominal), Fx(15, 1000))

VATRateEquation(p, t) ==
    IF has_var(p, "ITPC0R_X") THEN get(p, "ITPC0R_X", t)
    ELSE fmuln(ML2Scalars.vat_rate, 100)

EmployerSSCRateEquation(p, t) ==
    IF has_var(p, "CSSFR_X") THEN fdivn(get(p, "CSSFR_X", t), 100)
    ELSE ML2Scalars.css_emp_rate

EmployeeSSCRateEquation(p, t) ==
    IF has_var(p, "CSSHR_X") THEN fdivn(get(p, "CSSHR_X", t), 100)
    ELSE ML2Scalars.css_house_rate

PublicInvestmentEquation(p, t) ==
    LET trend == fmul(lag(p, "IG_", t), One + ML2Scalars.tfp_growth)
    IN  fadd(trend, fdivn(GetOr(p, "VIG_X", t, 0), 1000))

TransfersEquation(p, t) ==
    fmul(fmul(lag(p, "TGH_", t), SafeExpDln(p, "PC_", t)),
         fadd(One, fdivn(GetOr(p, "TGH_X", t, 0), 100)))

StockChangeEquation(p, t) == lag(p, "DS_", t)

CapitalEquation(p, t) ==
    fadd(get(p, "IF_", t), fmul(One - ML2Scalars.delta, lag(p, "K_", t)))

OutputGapEquation(p, t) ==
    LET ystar == get(p, "YSTAR_", t)
    IN  IF feq(ystar, 0) THEN 0
        ELSE fdiv(fsub(get(p, "Y_", t), ystar), ystar)

ConsumerPriceEquation(p, t) ==
    LET s == ML2Scalars
        pc_prev == lag(p, "PC_", t)
        dln_cost == dln(p, "COST_", t)
        dln_pm == IF has_var(p, "PM_") THEN dln(p, "PM_", t) ELSE s.pm_growth
        ygap == get(p, "YGAP_", t)
        cost_1 == lag(p, "COST_", t)
        ecm == IF fgt(pc_prev, 0) /\ fgt(cost_1, 0)
               THEN fsub(LogPositive(pc_prev), fmul(s.pc5, LogPositive(cost_1)))
               ELSE 0
        vat == IF has_var(p, "ITPC0R_") THEN get(p, "ITPC0R_", t) ELSE fmuln(s.vat_rate, 100)
        vat_1 == IF has_var(p, "ITPC0R_") THEN lag(p, "ITPC0R_", t) ELSE fmuln(s.vat_rate, 100)
        d_vat == fdivn(fsub(vat, vat_1), 100)
        dln_pc == fadd(fadd(fadd(fadd(fadd(s.pc0, fmul(s.pc1, dln_cost)),
                                           fmul(s.pc2, dln_pm)),
                                      fmul(s.pc3, ygap)),
                                 fmul(s.pc4, ecm)),
                            fmul(s.pc_vat, d_vat))
    IN  IF fle(pc_prev, 0) THEN pc_prev
        ELSE fmul(pc_prev, safe_exp(dln_pc))

CapacityUtilizationEquation(p, t) ==
    LET ystar == get(p, "YSTAR_", t)
    IN  IF feq(ystar, 0) THEN One
        ELSE pymax(Fx(80, 100), pymin(Fx(110, 100), fdiv(get(p, "Y_", t), ystar)))

EmploymentEquation(p, t) ==
    LET lh_prev == lag(p, "LH_", t)
        l_prev == lag(p, "L_", t)
    IN  IF feq(lh_prev, 0) \/ feq(l_prev, 0) THEN l_prev
        ELSE fmul(l_prev, fdiv(get(p, "LH_", t), lh_prev))

UnemploymentEquation(p, t) ==
    fsub(fsub(get(p, "NAT_", t), get(p, "L_", t)), get(p, "NG_", t))

UnemploymentRateEquation(p, t) ==
    LET nat == get(p, "NAT_", t)
    IN  IF feq(nat, 0) THEN 0 ELSE fdiv(get(p, "U_", t), nat)

PublicConsumptionEquation(p, t) ==
    LET wage_bill == fdivn(fmul(get(p, "WG_", t), get(p, "NG_", t)), 1000)
        wage_bill_1 == fdivn(fmul(lag(p, "WG_", t), lag(p, "NG_", t)), 1000)
        non_wage == fsub(lag(p, "CG_", t), wage_bill_1)
    IN  fadd(wage_bill, fmul(non_wage, One + ML2Scalars.tfp_growth))

DomesticDemandEquation(p, t) ==
    fadd(fadd(fadd(fadd(fadd(get(p, "C_", t), get(p, "IF_", t)), get(p, "IH_", t)),
                   get(p, "IG_", t)), get(p, "CG_", t)), get(p, "DS_", t))

GDPEquation(p, t) ==
    fsub(fadd(get(p, "DD_", t), get(p, "X_", t)), get(p, "M_", t))

GDPDeflatorEquation(p, t) ==
    LET gdp == get(p, "GDP_", t)
        pc == get(p, "PC_", t)
        nom == fadd(fsub(fadd(fadd(fadd(fadd(fadd(
                   fmul(get(p, "C_", t), pc),
                   fmul(get(p, "IF_", t), get(p, "PIF_", t))),
                   fmul(get(p, "IH_", t), get(p, "PIH_", t))),
                   fmul(get(p, "IG_", t), get(p, "PIG_", t))),
                   fmul(get(p, "CG_", t), pc)),
                   fmul(get(p, "X_", t), get(p, "PX_", t))),
                   fmul(get(p, "M_", t), get(p, "PM_", t))),
                   fmul(get(p, "DS_", t), pc))
    IN  IF feq(gdp, 0) THEN lag(p, "PGDP_", t) ELSE fdiv(nom, gdp)

NominalGDPEquation(p, t) == fmul(get(p, "GDP_", t), get(p, "PGDP_", t))

GovernmentReceiptsEquation(p, t) ==
    LET private_wb == fdivn(fmul(get(p, "W_", t), get(p, "L_", t)), 1000)
        public_wb == fdivn(fmul(get(p, "WG_", t), get(p, "NG_", t)), 1000)
        total_wb == fadd(private_wb, public_wb)
        cssfr == GetOr(p, "CSSFR_", t, ML2Scalars.css_emp_rate)
        csshr == GetOr(p, "CSSHR_", t, ML2Scalars.css_house_rate)
        ssc_emp == fmul(total_wb, cssfr)
        ssc_house == fmul(total_wb, csshr)
        income_tax == fadd(fmul(fmul(total_wb, fsub(One, csshr)), Fx(25, 100)),
                           fdivn(GetOr(p, "DTH_X", t, 0), 1000))
        vat == GetOr(p, "ITPC0R_", t, fmuln(ML2Scalars.vat_rate, 100))
        consumption_nom == fmul(get(p, "C_", t), get(p, "PC_", t))
        vat_revenue == fdiv(fmul(consumption_nom, fdivn(vat, 100)),
                            fadd(One, fdivn(vat, 100)))
        other_revenue == fmul(get(p, "GDPN_", t), Fx(12, 100))
    IN  fadd(fadd(fadd(fadd(income_tax, vat_revenue), ssc_emp), ssc_house),
             other_revenue)

GovernmentExpenditureEquation(p, t) ==
    LET cg_nom == fmul(get(p, "CG_", t), get(p, "PC_", t))
        ig_nom == fmul(get(p, "IG_", t), get(p, "PIG_", t))
        tgh == get(p, "TGH_", t)
        b == GetOr(p, "B_", t, fmul(get(p, "GDPN_", t), ML2Scalars.debt_gdp))
        interest == fmul(b, ML2Scalars.debt_rate)
        other_exp == fmul(get(p, "GDPN_", t), Fx(8, 100))
    IN  fadd(fadd(fadd(fadd(cg_nom, ig_nom), tgh), interest), other_exp)

DeficitEquation(p, t) == fsub(get(p, "GRECEIPTS_", t), get(p, "GEXPENSE_", t))

DebtEquation(p, t) == fsub(lag(p, "B_", t), get(p, "D_", t))

TotalInvestmentEquation(p, t) ==
    fadd(fadd(get(p, "IF_", t), get(p, "IH_", t)), get(p, "IG_", t))

ProductivityEquation(p, t) ==
    LET lh == get(p, "LH_", t)
    IN  IF feq(lh, 0) THEN lag(p, "PROD_", t) ELSE fdiv(get(p, "Y_", t), lh)

WageBillEquation(p, t) ==
    fadd(fdivn(fmul(get(p, "W_", t), get(p, "L_", t)), 1000),
         fdivn(fmul(get(p, "WG_", t), get(p, "NG_", t)), 1000))

DeficitRatioEquation(p, t) ==
    LET gdpn == get(p, "GDPN_", t)
    IN  IF feq(gdpn, 0) THEN 0 ELSE fdiv(get(p, "D_", t), gdpn)

DebtRatioEquation(p, t) ==
    LET gdpn == get(p, "GDPN_", t)
    IN  IF feq(gdpn, 0) THEN lag(p, "BR_", t) ELSE fdiv(get(p, "B_", t), gdpn)

NominalExportsEquation(p, t) == fmul(get(p, "X_", t), get(p, "PX_", t))

NominalImportsEquation(p, t) == fmul(get(p, "M_", t), get(p, "PM_", t))

TradeBalanceEquation(p, t) == fsub(get(p, "XN_", t), get(p, "MN_", t))

TradeBalanceRatioEquation(p, t) ==
    LET gdpn == get(p, "GDPN_", t)
    IN  IF feq(gdpn, 0) THEN 0 ELSE fdiv(get(p, "TB_", t), gdpn)

\* registry.get(var).compute(state, t, scalars)
compute(var, p, t) ==
    CASE var = "TFP_" -> TFPEquation(p, t)
      [] var = "NAT_" -> LabourForceEquation(p, t)
      [] var = "NG_" -> PublicEmploymentEquation(p, t)
      [] var = "XWORLD_" -> WorldDemandEquation(p, t)
      [] var = "PCOMP_" -> CompetitorPriceEquation(p, t)
      [] var = "PM_" -> ImportPriceEquation(p, t)
      [] var = "RNOM_" -> NominalInterestRateEquation(p, t)
      [] var = "RMORT_" -> MortgageRateEquation(p, t)
      [] var = "ITPC0R_" -> VATRateEquation(p, t)
      [] var = "CSSFR_" -> EmployerSSCRateEquation(p, t)
      [] var = "CSSHR_" -> EmployeeSSCRateEquation(p, t)
      [] var = "IG_" -> PublicInvestmentEquation(p, t)
      [] var = "TGH_" -> TransfersEquation(p, t)
      [] var = "DS_" -> StockChangeEquation(p, t)
      [] var = "K_" -> CapitalEquation(p, t)
      [] var = "YGAP_" -> OutputGapEquation(p, t)
      [] var = "ZKF_" -> CapacityUtilizationEquation(p, t)
      [] var = "PC_" -> ConsumerPriceEquation(p, t)
      [] var = "L_" -> EmploymentEquation(p, t)
      [] var = "U_" -> UnemploymentEquation(p, t)
      [] var = "UR_" -> UnemploymentRateEquation(p, t)
      [] var = "CG_" -> PublicConsumptionEquation(p, t)
      [] var = "DD_" -> DomesticDemandEquation(p, t)
      [] var = "GDP_" -> GDPEquation(p, t)
      [] var = "PGDP_" -> GDPDeflatorEquation(p, t)
      [] var = "GDPN_" -> NominalGDPEquation(p, t)
      [] var = "GRECEIPTS_" -> GovernmentReceiptsEquation(p, t)
      [] var = "GEXPENSE_" -> GovernmentExpenditureEquation(p, t)
      [] var = "D_" -> DeficitEquation(p, t)
      [] var = "B_" -> DebtEquation(p, t)
      [] var = "I_" -> TotalInvestmentEquation(p, t)
      [] var = "PROD_" -> ProductivityEquation(p, t)
      [] var = "WB_" -> WageBillEquation(p, t)
      [] var = "DR_" -> DeficitRatioEquation(p, t)
      [] var = "BR_" -> DebtRatioEquation(p, t)
      [] var = "XN_" -> NominalExportsEquation(p, t)
      [] var = "MN_" -> NominalImportsEquation(p, t)
      [] var = "TB_" -> TradeBalanceEquation(p, t)
      [] var = "TBR_" -> TradeBalanceRatioEquation(p, t)

\* ------------------------------------------------------------------ solver.py
\* Residuals are kept with RSCALE units per 1.0 (finer than the cells).
RSCALE == 100 * SCALE

relaxation_half == Fx(5, 10)

relaxation == Fx(2, 10)

eps == (1 * RSCALE) \div 10000

\* a pre or post step that blends the value with the cell as an inter step does
WriteEq_relaxed(p, t, var) ==
    set(p, var, t, fadd(fmul(relaxation, compute(var, p, t)),
                        fmul(fsub(One, relaxation), get(p, var, t))))

\* one pre or post step: val = eq.compute(state, t, scalars); state.set(var, t, val)
WriteEq(p, t, var) == set(p, var, t, compute(var, p, t))

\* relaxed = relaxation * new_val + (1 - relaxation) * old_val
Relax(new_val, old_val) ==
    fadd(fmul(relaxation, new_val), fmul(fsub(One, relaxation), old_val))

\* abs(relaxed - old) / abs(old) if abs(old) > 1e-10 else abs(relaxed - old), at the
\* resolution 1/RSCALE; the quotient d * RSCALE \div o is taken in three parts so
\* that no product leaves the integers of the checker
Residual(relaxed, old_val) ==
    IF IsNaN(relaxed) \/ IsNaN(old_val) THEN NaN
    ELSE IF fabs(old_val) > 0
         THEN LET d == fabs(relaxed - old_val)  o == fabs(old_val)
                  h == (d % o) * (RSCALE \div SCALE)
              IN (d \div o) * RSCALE + (h \div o) * SCALE + ((h % o) * SCALE) \div o
         ELSE fabs(relaxed - old_val) * (RSCALE \div SCALE)

\* the inner loop of phase 2 from the relaxation on, for the new_val the equation gave
RelaxedWrite(p, t, var, new_val, max_resid) ==
    The({ [ p |-> set(p, var, t, w.relaxed),
            max_resid |-> pymax(max_resid, w.resid),
            new_val |-> w.new_val, old_val |-> w.old_val,
            relaxed |-> w.relaxed, resid |-> w.resid ] :
          w \in { [ new_val |-> v[1], old_val |-> v[2], relaxed |-> v[3],
                    resid |-> Residual(v[3], v[2]) ] :
                  v \in { <<n, get(p, var, t), Relax(n, get(p, var, t))>> :
                          n \in {new_val} } } })

\* the body of the inner loop of phase 2 for one variable
InterUpdate(p, t, var, max_resid) ==
    RelaxedWrite(p, t, var, compute(var, p, t), max_resid)

\* if max_resid < self._eps
Converged(max_resid) == flt(max_resid, eps)

\* range(1, max_iter + 1) has given its last value
Exhausted_late(it, n) == it = n + 1

Exhausted(it, n) == it = n

\* phase 1 or phase 3: the variables of vars, one after the other
RECURSIVE WriteAll(_, _, _)
WriteAll(p, t, vars) ==
    IF vars = << >> THEN p
    ELSE The({ WriteAll(q, t, Tail(vars)) : q \in { WriteEq(p, t, Head(vars)) } })

\* one sweep of phase 2 over vars
RECURSIVE Sweep(_, _, _, _)
Sweep(p, t, vars, max_resid) ==
    IF vars = << >> THEN [p |-> p, max_resid |-> max_resid]
    ELSE The({ Sweep(u.p, t, Tail(vars), u.max_resid) :
               u \in { InterUpdate(p, t, Head(vars), max_resid) } })

\* for it in range(it, max_iter + 1): sweep; iterations = it; break when converged
RECURSIVE Iterate(_, _, _, _)
Iterate(p, t, it, n) ==
    The({ IF Converged(s.max_resid)
          THEN [p |-> s.p, iterations |-> it, max_resid |-> s.max_resid,
                status |-> "CONVERGED"]
          ELSE IF Exhausted(it, n)
               THEN [p |-> s.p, iterations |-> it, max_resid |-> s.max_resid,
                     status |-> "MAX_ITERATIONS"]
               ELSE Iterate(s.p, t, it + 1, n) :
          s \in { Sweep(p, t, InterVars, 0) } })

YearConvergence(t, iterations, max_resid, status) ==
    [year |-> t, iterations |-> iterations, max_residual |-> max_resid,
     status |-> status]

solve_year(p, t, n) ==
    The({ [ p |-> WriteAll(r.p, t, PostVars),
            conv |-> YearConvergence(t, r.iterations, r.max_resid, r.status) ] :
          r \in { Iterate(WriteAll(p, t, PreVars), t, 1, n) } })

RECURSIVE solve(_, _, _)
solve(p, yrs, n) ==
    IF yrs = << >> THEN [p |-> p, results |-> << >>]
    ELSE The({ The({ [p |-> rest.p, results |-> <<y.conv>> \o rest.results] :
                     rest \in { solve(y.p, Tail(yrs), n) } }) :
               y \in { solve_year(p, Head(yrs), n) } })

\* ------------------------------------------------------------------ impact.py
ABSOLUTE_IMPACT_VARS_none == {}

ABSOLUTE_IMPACT_VARS == {"DR_", "UR_", "BR_", "TBR_", "YGAP_", "ZKF_"}

Impact(var, base_val, scen_val) ==
    IF var \in ABSOLUTE_IMPACT_VARS
    THEN fmuln(fsub(scen_val, base_val), 100)
    ELSE IF fgt(fabs(base_val), 0)
         THEN fmuln(fdiv(fsub(scen_val, base_val), base_val), 100)
         ELSE 0

SeqToSet(s) == {s[i] : i \in 1..Len(s)}

compute_impacts(base, scenario, variables, yrs) ==
    [var \in SeqToSet(variables) |->
        [t \in SeqToSet(yrs) |-> Impact(var, get(base, var, t), get(scenario, var, t))]]

\* ------------------------------------------------------------------ engine.py
\* the fallback of ensure(var, fn) at one year
\* a pass whose Y_ fallback reads DD_, a column the pass fills after Y_
Fallback_forward(var, p, yr) ==
    CASE var = "Y_" -> GetOr(p, "DD_", yr, get(p, "GDP_", yr))
      [] var = "DD_" ->
            fadd(fadd(fadd(fadd(fadd(get(p, "C_", yr), get(p, "IF_", yr)),
                 get(p, "IH_", yr)), get(p, "IG_", yr)), get(p, "CG_", yr)),
                 get(p, "DS_", yr))
      [] var = "RREAL_" -> fsub(ML2Scalars.r_nominal, Fx(15, 1000))
      [] var = "RMORT_" ->
            IF has_var(p, "RNOM_") THEN fadd(get(p, "RNOM_", yr), Fx(15, 1000))
            ELSE Fx(45, 1000)
      [] var = "PROFIT_" ->
            LET pck == fmul(get(p, "PC_", yr), get(p, "K_", yr))
            IN  IF fgt(pck, 0)
                THEN fdiv(fsub(get(p, "GDP_", yr),
                               fdivn(fmul(get(p, "W_", yr), get(p, "L_", yr)), 1000)),
                          pck)
                ELSE Fx(6, 100)
      [] var = "ULC_" ->
            IF fgt(get(p, "GDP_", yr), 0)
            THEN fdiv(fmul(get(p, "W_", yr), get(p, "L_", yr)), get(p, "GDP_", yr))
            ELSE 0
      [] var = "COST_" ->
            fadd(fmul(ML2Scalars.cost_w, get(p, "ULC_", yr)),
                 fmul(ML2Scalars.cost_pm, GetOr(p, "PM_", yr, One)))

Fallback(var, p, yr) ==
    CASE var = "Y_" -> get(p, "GDP_", yr)
      [] var = "DD_" ->
            fadd(fadd(fadd(fadd(fadd(get(p, "C_", yr), get(p, "IF_", yr)),
                 get(p, "IH_", yr)), get(p, "IG_", yr)), get(p, "CG_", yr)),
                 get(p, "DS_", yr))
      [] var = "RREAL_" -> fsub(ML2Scalars.r_nominal, Fx(15, 1000))
      [] var = "RMORT_" ->
            IF has_var(p, "RNOM_") THEN fadd(get(p, "RNOM_", yr), Fx(15, 1000))
            ELSE Fx(45, 1000)
      [] var = "PROFIT_" ->
            LET pck == fmul(get(p, "PC_", yr), get(p, "K_", yr))
            IN  IF fgt(pck, 0)
                THEN fdiv(fsub(get(p, "GDP_", yr),
                               fdivn(fmul(get(p, "W_", yr), get(p, "L_", yr)), 1000)),
                          pck)
                ELSE Fx(6, 100)
      [] var = "ULC_" ->
            IF fgt(get(p, "GDP_", yr), 0)
            THEN fdiv(fmul(get(p, "W_", yr), get(p, "L_", yr)), get(p, "GDP_", yr))
            ELSE 0
      [] var = "COST_" ->
            fadd(fmul(ML2Scalars.cost_w, get(p, "ULC_", yr)),
                 fmul(ML2Scalars.cost_pm, GetOr(p, "PM_", yr, One)))

\* an ensure that writes the fallback into every cell, zero or not
RECURSIVE EnsureYears_all(_, _, _)
EnsureYears_all(p, var, yrs) ==
    IF yrs = << >> THEN p
    ELSE The({ EnsureYears_all(q, var, Tail(yrs)) :
               q \in { set(p, var, Head(yrs), Fallback(var, p, Head(yrs))) } })

RECURSIVE EnsureYears(_, _, _)
EnsureYears(p, var, yrs) ==
    IF yrs = << >> THEN p
    ELSE The({ EnsureYears(q, var, Tail(yrs)) :
               q \in { IF feq(get(p, var, Head(yrs)), 0)
                       THEN set(p, var, Head(yrs), Fallback(var, p, Head(yrs)))
                       ELSE p } })

\* ensure(var, fn)
ensure(p, var) == EnsureYears(add_var(p, var, 0), var, years(p))

AddAll(p, vars) ==
    [p EXCEPT !.col = [c \in (SeqToSet(vars) \ DOMAIN p.col) |->
                           [y \in YearSet(p) |-> 0]] @@ p.col]

\* the variables _ensure_variables gives a fallback, in the order of its calls
ensured == << "Y_", "DD_", "RREAL_", "RMORT_", "PROFIT_", "ULC_", "COST_" >>

RECURSIVE EnsureAll(_, _)
EnsureAll(p, vars) ==
    IF vars = << >> THEN p
    ELSE The({ EnsureAll(q, Tail(vars)) : q \in { ensure(p, Head(vars)) } })

_ensure_variables(p) == AddAll(EnsureAll(p, ensured), all_variables)

\* ------------------------------------------------------------------ baseline file
\* The baseline file is an input of the program.  FileRow gives the value every
\* year of the flat file holds for each of the columns the file must have.
FileRow ==
    [ GDP_ |-> Fx(20, 1), C_ |-> Fx(10, 1), IF_ |-> Fx(3, 1), IH_ |-> Fx(1, 1),
      IG_ |-> Fx(1, 1), CG_ |-> Fx(4, 1), DS_ |-> Fx(0, 1), X_ |-> Fx(8, 1),
      M_ |-> Fx(7, 1), L_ |-> Fx(40001, 1000), LH_ |-> Fx(40, 1), NAT_ |-> Fx(46, 1),
      NG_ |-> Fx(3, 1), K_ |-> Fx(45, 1), TFP_ |-> Fx(1, 1), PC_ |-> Fx(1, 1),
      PIF_ |-> Fx(1, 1), PIH_ |-> Fx(1, 1), PIG_ |-> Fx(1, 1), PX_ |-> Fx(1, 1),
      PM_ |-> Fx(1, 1), PCOMP_ |-> Fx(1, 1), XWORLD_ |-> Fx(10, 1),
      W_ |-> Fx(30, 1), WG_ |-> Fx(30, 1), RNOM_ |-> Fx(3, 100),
      UR_ |-> Fx(65, 1000), TGH_ |-> Fx(5, 1), B_ |-> Fx(20, 1),
      GDPN_ |-> Fx(20, 1) ]

FileYears(n) == [i \in 1..n |-> FirstYear + i - 1]

\* a file of n years with the required columns only, the same row every year
FlatFile(n) ==
    [ yrs |-> FileYears(n),
      col |-> [c \in DOMAIN FileRow |->
                 [y \in SeqToSet(FileYears(n)) |-> FileRow[c]]] ]

SettleRounds == 12

\* a panel solved again and again, a few sweeps a time
RECURSIVE Settle(_, _)
Settle(p, k) ==
    IF k = 0 THEN p
    ELSE The({ Settle(q, k - 1) : q \in { solve(p, sim_years(p), 8).p } })

\* a file written from a run of the model: every year solved until it converged
SettledFile(n) == Settle(_ensure_variables(FlatFile(n)), SettleRounds)

\* ------------------------------------------------------------------ engine.py: output
\* KeyIndicators of _extract_indicators(state, sim_years)
_extract_indicators(p, yrs) ==
    [ years |-> yrs,
      gdp_growth |-> [i \in 1..Len(yrs) |-> grt(p, "GDP_", yrs[i])],
      inflation |-> [i \in 1..Len(yrs) |-> grt(p, "PC_", yrs[i])],
      deficit_ratio |-> [i \in 1..Len(yrs) |-> fmuln(get(p, "DR_", yrs[i]), 100)],
      unemployment |-> [i \in 1..Len(yrs) |-> fmuln(get(p, "UR_", yrs[i]), 100)] ]

level_vars ==
    << "GDP_", "C_", "IF_", "IH_", "IG_", "X_", "M_", "PC_", "W_", "L_", "U_", "UR_",
       "DR_", "BR_", "YDH_", "GDPN_", "K_", "PROD_", "ULC_", "GRECEIPTS_",
       "GEXPENSE_", "D_", "B_" >>

\* state.to_dict(variables): the listed columns the panel has, every year
to_dict(p, variables) ==
    [var \in {v \in SeqToSet(variables) : has_var(p, v)} |-> p.col[var]]

\* an output whose baseline indicators are read from the solved scenario panel
SimulationOutput_solved(baseline_state, scenario_state, yrs, convergence, instruments) ==
    [ kind |-> "SimulationOutput",
      years |-> yrs,
      baseline_indicators |-> _extract_indicators(scenario_state, yrs),
      scenario_indicators |-> _extract_indicators(scenario_state, yrs),
      impacts |-> compute_impacts(baseline_state, scenario_state, all_variables, yrs),
      levels |-> to_dict(scenario_state, level_vars),
      convergence |-> convergence,
      instruments |-> instruments ]

\* the SimulationOutput simulate returns (the name is the caller's label)
SimulationOutput(baseline_state, scenario_state, yrs, convergence, instruments) ==
    [ kind |-> "SimulationOutput",
      years |-> yrs,
      baseline_indicators |-> _extract_indicators(baseline_state, yrs),
      scenario_indicators |-> _extract_indicators(scenario_state, yrs),
      impacts |-> compute_impacts(baseline_state, scenario_state, all_variables, yrs),
      levels |-> to_dict(scenario_state, level_vars),
      convergence |-> convergence,
      instruments |-> instruments ]

\* the dict simulate makes of a YearConvergence; round(max_residual, 8) changes
\* nothing at the resolution 1/RSCALE of a residual
ConvergenceDict(c) ==
    [ year |-> c.year, iterations |-> c.iterations,
      max_residual |-> c.max_residual, status |-> c.status ]

\* raise ValueError(f"Invalid instruments: {'; '.join(errors)}"): the message is
\* kept as its parts, the prefix first
ValueError(errors) ==
    [ kind |-> "ValueError", message |-> <<"Invalid instruments: ">> \o errors ]

\* GaussSeidelSolver(registry, scalars): max_iter keeps its default
max_iter == MaxIter

\* the whole of simulate on a panel b nobody else touches
simulate_alone(b, instrument_values) ==
    The({ The({ SimulationOutput(b, solved.p, sim_years(b),
                    [i \in 1..Len(solved.results) |->
                        ConvergenceDict(solved.results[i])],
                    instruments) :
                solved \in { solve(apply_instruments(b, instruments, sim_years(b)),
                                   sim_years(b), max_iter) } }) :
          instruments \in { DictUpdate(get_default_instruments, instrument_values) } })

\* ------------------------------------------------------------------ the machine
VARIABLES
    threads,    \* environment: the threads that call simulate
    todo,       \* environment: simulate calls still to be made
    file,       \* environment: the panel the baseline file on disk holds
    baseline,   \* engine._baseline: 0 (None) or the reference of the cached panel
    heap,       \* the live panels: reference -> panel
    frame,      \* per thread: the locals of its simulate call and where it stands
    base0,      \* history: the cached panel as load_baseline left it
    seen,       \* history: instrument_values -> the first outcome simulate gave for
                \* them, and the number of calls that have ended with them
    arg,        \* argument of the pure function under test
    ret         \* what it returned

vars == << threads, todo, file, baseline, heap, frame, base0, seen, arg, ret >>

\* ---- the inputs
Shock == Fx(20, 1)

SimKeys == {"VIG_X", "BOGUS"}

\* the values callers pass for a key: around the declared range, and not-a-number
SimValues(k) ==
    IF k \in InstrumentKeys
    THEN { INSTRUMENT_MAP[k].min_val - 1, INSTRUMENT_MAP[k].default,
           INSTRUMENT_MAP[k].default + Shock, INSTRUMENT_MAP[k].max_val + 1, NaN }
    ELSE { Fx(42, 1) }

\* all dicts of exactly n entries drawn from the <<key, value>> pairs es
RECURSIVE DictsOfLen(_, _)
DictsOfLen(n, es) ==
    IF n = 0 THEN { << >> }
    ELSE { Append(de[1], de[2]) :
           de \in { x \in DictsOfLen(n - 1, es) \X es : x[2][1] \notin DictKeys(x[1]) } }

SimEntries == UNION { { <<k, v>> : v \in SimValues(k) } : k \in SimKeys }

SimInputs == UNION { DictsOfLen(n, SimEntries) : n \in 0..MaxKeys }

\* ---- the files the loader may find
SpecFiles == { FlatFile(NYears), SettledFile(NYears) }

ConcFiles == { SettledFile(NYears - 1) }

\* ---- references
BaselineRef == 1

\* the panels simulate allocates for thread th: baseline_state and scenario_state
BRef(th) == 2 * th

SRef_cached(th) == BaselineRef   \* the scenario is built in the cached panel itself

SRef_shared(th) == 3             \* every call builds its scenario in one shared panel

SRef(th) == 2 * th + 1

\* SimulationState.copy(): a new panel with the same cells
copy_alias(h, src, dst) == [heap |-> h, ref |-> src]

copy(h, src, dst) == [heap |-> (dst :> h[src]) @@ h, ref |-> dst]

NoPanel == [yrs |-> << >>, col |-> << >>]

NoOutcome == [kind |-> "none"]

IdleFrame ==
    [ pc |-> "idle", iv |-> << >>, warm |-> FALSE, instruments |-> << >>,
      bref |-> 0, sref |-> 0, yrs |-> << >>, yi |-> 0, vi |-> 0, it |-> 0,
      max_resid |-> 0, status |-> "", iterations |-> 0, results |-> << >>,
      out |-> NoOutcome,
      log |-> << >>, start |-> NoPanel, written |-> << >>, resids |-> << >> ]

Running(f) == f.pc \notin {"idle", "raised", "done"}

Remember(s, iv, outcome) ==
    IF iv \in DOMAIN s THEN [s EXCEPT ![iv].n = @ + 1]
    ELSE (iv :> [first |-> outcome, n |-> 1]) @@ s

NotCalled == [called |-> FALSE]

InitEngine ==
    /\ baseline = 0
    /\ heap = << >>
    /\ frame = [th \in 1..threads |-> IdleFrame]
    /\ base0 = NoPanel
    /\ seen = << >>

Init ==
    /\ threads = 1
    /\ todo = MaxCalls
    /\ file \in SpecFiles
    /\ InitEngine
    /\ arg = << >>
    /\ ret = NotCalled

InitConc ==
    /\ threads = 2
    /\ todo = 2
    /\ file \in ConcFiles
    /\ InitEngine
    /\ arg = << >>
    /\ ret = NotCalled

\* ---- load_baseline()
LoadBaseline ==
    /\ \A th \in 1..threads : ~Running(frame[th])
    /\ baseline' = BaselineRef
    /\ heap' = (BaselineRef :> _ensure_variables(file)) @@ heap
    /\ base0' = _ensure_variables(file)
    /\ UNCHANGED << threads, todo, file, frame, seen, arg, ret >>

\* ---- simulate(instrument_values): merge with defaults, validate, raise or go on
Simulate_Validate(th, iv) ==
    /\ ~Running(frame[th])
    /\ todo > 0
    /\ todo' = todo - 1
    /\ LET errors == IF iv # << >> THEN validate_instruments(iv) ELSE << >>
           f == [IdleFrame EXCEPT !.iv = iv, !.warm = (baseline # 0)]
       IN  IF errors # << >>
           THEN /\ frame' = [frame EXCEPT ![th] =
                       [f EXCEPT !.pc = "raised", !.out = ValueError(errors)]]
                /\ seen' = Remember(seen, iv, ValueError(errors))
           ELSE /\ frame' = [frame EXCEPT ![th] =
                       [f EXCEPT !.pc = "copy",
                                 !.instruments = DictUpdate(get_default_instruments, iv)]]
                /\ seen' = seen
    /\ UNCHANGED << threads, file, baseline, heap, base0, arg, ret >>

\* ---- baseline_state = self.baseline.copy(); scenario_state = self.baseline.copy();
\* sim_years = scenario_state.sim_years.  The property baseline loads the file when
\* nothing is cached yet.
Simulate_Copy(th) ==
    /\ frame[th].pc = "copy"
    /\ LET loaded == _ensure_variables(file)
           h0 == IF baseline = 0 THEN (BaselineRef :> loaded) @@ heap ELSE heap
           b == IF baseline = 0 THEN BaselineRef ELSE baseline
           c1 == copy(h0, b, BRef(th))
           c2 == copy(c1.heap, b, SRef(th))
       IN  /\ heap' = c2.heap
           /\ baseline' = b
           /\ base0' = IF baseline = 0 THEN loaded ELSE base0
           /\ frame' = [frame EXCEPT ![th] =
                  [@ EXCEPT !.pc = "apply", !.bref = c1.ref, !.sref = c2.ref,
                            !.yrs = sim_years(c2.heap[c2.ref])]]
    /\ UNCHANGED << threads, todo, file, seen, arg, ret >>

\* solve_year(state, t) begins for the year yrs[i]
StartYear(f, i) == [f EXCEPT !.pc = "pre", !.yi = i, !.vi = 1]

\* ---- apply_instruments(scenario_state, instruments, sim_years); solve begins
Simulate_Apply(th) ==
    /\ frame[th].pc = "apply"
    /\ LET f == frame[th]
       IN  /\ heap' = [heap EXCEPT
                          ![f.sref] = apply_instruments(@, f.instruments, f.yrs)]
           /\ frame' = [frame EXCEPT ![th] =
                  IF f.yrs = << >> THEN [f EXCEPT !.pc = "package"]
                  ELSE StartYear(f, 1)]
    /\ UNCHANGED << threads, todo, file, baseline, base0, seen, arg, ret >>

\* ---- phase 1, one variable: val = eq.compute(state, t, scalars); state.set(var, t, val)
\* After the last one: status = MAX_ITERATIONS, max_resid = 0.0, iterations = 0 and
\* the first sweep begins (max_iter is at least 1).
PreStep(th) ==
    /\ frame[th].pc = "pre"
    /\ LET f == frame[th]
           t == f.yrs[f.yi]
           var == PreVars[f.vi]
           g == [f EXCEPT !.log = Append(IF f.vi = 1 THEN << >> ELSE @, <<"pre", var>>)]
       IN  \E p1 \in { WriteEq(heap[f.sref], t, var) } :
           /\ heap' = [heap EXCEPT ![f.sref] = p1]
           /\ frame' = [frame EXCEPT ![th] =
                  IF f.vi < Len(PreVars) THEN [g EXCEPT !.vi = f.vi + 1]
                  ELSE [g EXCEPT !.pc = "inter", !.vi = 1, !.it = 1,
                                 !.status = "MAX_ITERATIONS", !.max_resid = 0,
                                 !.iterations = 0,
                                 !.start = p1, !.written = << >>,
                                 !.resids = << << >> >>]]
    /\ UNCHANGED << threads, todo, file, baseline, base0, seen, arg, ret >>

\* the panel eq.compute reads in a sweep: the panel being solved itself
EqPanel_jacobi(p, start) == start

EqPanel(p, start) == p

\* max_resid = 0.0 at the top of every sweep
NewSweepResid_carry(prev) == prev

NewSweepResid(prev) == 0

\* what follows the loop, whatever the status it ended with: phase 3
AfterLoop_skip(status) == IF status = "CONVERGED" THEN "post" ELSE "yearend"

AfterLoop(status) == "post"

\* ---- phase 2, one variable of one sweep
InterStep(th) ==
    /\ frame[th].pc = "inter"
    /\ LET f == frame[th]
           t == f.yrs[f.yi]
           var == InterVars[f.vi]
           p == heap[f.sref]
       IN  \E u \in { RelaxedWrite(p, t, var, compute(var, EqPanel(p, f.start), t),
                                   f.max_resid) } :
           /\ heap' = [heap EXCEPT ![f.sref] = u.p]
           /\ frame' = [frame EXCEPT ![th] =
                  [f EXCEPT !.max_resid = u.max_resid,
                            !.log = Append(@, <<"inter", var>>),
                            !.written = Append(@, u.relaxed),
                            !.resids[Len(f.resids)] = Append(@, u.resid),
                            !.vi = IF f.vi < Len(InterVars) THEN f.vi + 1 ELSE 1,
                            !.pc = IF f.vi < Len(InterVars) THEN "inter"
                                   ELSE "sweepend"]]
    /\ UNCHANGED << threads, todo, file, baseline, base0, seen, arg, ret >>

\* ---- the end of a sweep: iterations = it; converged: status = CONVERGED, break;
\* else the next value of range(1, max_iter + 1), if there is one
SweepEnd(th) ==
    /\ frame[th].pc = "sweepend"
    /\ LET f == [frame[th] EXCEPT !.iterations = frame[th].it]
       IN  frame' = [frame EXCEPT ![th] =
               IF Converged(f.max_resid)
               THEN [f EXCEPT !.status = "CONVERGED", !.pc = AfterLoop("CONVERGED")]
               ELSE IF Exhausted(f.it, max_iter)
               THEN [f EXCEPT !.pc = AfterLoop(f.status)]
               ELSE [f EXCEPT !.it = f.it + 1,
                              !.max_resid = NewSweepResid(f.max_resid),
                              !.pc = "inter",
                              !.start = heap[f.sref], !.written = << >>,
                              !.resids = Append(@, << >>)]]
    /\ UNCHANGED << threads, todo, file, baseline, heap, base0, seen, arg, ret >>

\* ---- phase 3, one variable
PostStep(th) ==
    /\ frame[th].pc = "post"
    /\ LET f == frame[th]
           t == f.yrs[f.yi]
           var == PostVars[f.vi]
           g == [f EXCEPT !.log = Append(@, <<"post", var>>)]
       IN  /\ heap' = [heap EXCEPT ![f.sref] = WriteEq(@, t, var)]
           /\ frame' = [frame EXCEPT ![th] =
                  IF f.vi < Len(PostVars) THEN [g EXCEPT !.vi = f.vi + 1]
                  ELSE [g EXCEPT !.pc = "yearend", !.vi = 1]]
    /\ UNCHANGED << threads, todo, file, baseline, base0, seen, arg, ret >>

\* ---- solve_year returns its YearConvergence; solve appends it and takes the next year
YearEnd(th) ==
    /\ frame[th].pc = "yearend"
    /\ LET f == frame[th]
           conv == YearConvergence(f.yrs[f.yi], f.iterations, f.max_resid, f.status)
           g == [f EXCEPT !.results = Append(@, conv)]
       IN  frame' = [frame EXCEPT ![th] =
               IF f.yi < Len(f.yrs) THEN StartYear(g, f.yi + 1)
               ELSE [g EXCEPT !.pc = "package"]]
    /\ UNCHANGED << threads, todo, file, baseline, heap, base0, seen, arg, ret >>

\* ---- indicators, impacts, levels; the output is returned and the two panels of
\* the call are dropped
Simulate_Return(th) ==
    /\ frame[th].pc = "package"
    /\ LET f == frame[th]
           out == SimulationOutput(heap[f.bref], heap[f.sref], f.yrs,
                      [i \in 1..Len(f.results) |-> ConvergenceDict(f.results[i])],
                      f.instruments)
       IN  /\ frame' = [frame EXCEPT ![th] =
                  [IdleFrame EXCEPT !.pc = "done", !.iv = f.iv, !.warm = f.warm,
                                    !.instruments = f.instruments, !.out = out]]
           /\ seen' = Remember(seen, f.iv, out)
           /\ heap' = [r \in (DOMAIN heap) \ ({f.bref, f.sref} \ {baseline}) |-> heap[r]]
    /\ UNCHANGED << threads, todo, file, baseline, base0, arg, ret >>

Next ==
    \/ LoadBaseline
    \/ \E th \in 1..threads : \E iv \in SimInputs : Simulate_Validate(th, iv)
    \/ \E th \in 1..threads : Simulate_Copy(th)
    \/ \E th \in 1..threads : Simulate_Apply(th)
    \/ \E th \in 1..threads : PreStep(th)
    \/ \E th \in 1..threads : InterStep(th)
    \/ \E th \in 1..threads : SweepEnd(th)
    \/ \E th \in 1..threads : PostStep(th)
    \/ \E th \in 1..threads : YearEnd(th)
    \/ \E th \in 1..threads : Simulate_Return(th)

\* one thread, calls one after the other
Spec == Init /\ [][Next]_vars

\* two threads, one call each
SpecConc == InitConc /\ [][Next]_vars

\* ------------------------------------------------------------------ validate_instruments alone
MaxDict == 2         \* entries of an argument of validate_instruments

ValKeys == {"VIG_X", "ZX_X", "BOGUS"}

\* the values around and on the bounds of the declared range, and not-a-number
ValValues(k) ==
    IF k \in InstrumentKeys
    THEN { INSTRUMENT_MAP[k].min_val - 1, INSTRUMENT_MAP[k].min_val,
           INSTRUMENT_MAP[k].default, INSTRUMENT_MAP[k].max_val,
           INSTRUMENT_MAP[k].max_val + 1, NaN }
    ELSE { Fx(42, 1) }

ValEntries == UNION { { <<k, v>> : v \in ValValues(k) } : k \in ValKeys }

ValInputs == UNION { DictsOfLen(n, ValEntries) : n \in 0..MaxDict }

InitValidate ==
    /\ threads = 1
    /\ todo = 0
    /\ file = FlatFile(NYears)
    /\ InitEngine
    /\ arg \in ValInputs
    /\ ret = NotCalled

CallValidate ==
    /\ ~ret.called
    /\ ret' = [called |-> TRUE, value |-> validate_instruments(arg)]
    /\ UNCHANGED << threads, todo, file, baseline, heap, frame, base0, seen, arg >>

NextValidate == CallValidate

\* validate_instruments called once on each argument
SpecValidate == InitValidate /\ [][NextValidate]_vars

\* ================================================================== properties
Frames == { frame[th] : th \in 1..threads }

Shocked == << <<"VIG_X", INSTRUMENT_MAP["VIG_X"].default + Shock>> >>

\* the year whose solve has just ended: its report is the last of results, and
\* log, resids and written still describe that year
JustSolved(f) ==
    /\ Len(f.results) > 0
    /\ f.pc = "package" \/ (f.pc = "pre" /\ f.vi = 1)

\* C1: once the baseline is loaded, no simulate call, with valid or with invalid
\* instruments, changes the cached baseline panel: at every moment it holds the
\* values it held right after the load.
C1_BaselineUnchanged == baseline # 0 => heap[baseline] = base0

\* a call with a changed instrument has returned, all calls made, the baseline
\* loaded and some other call rejected
C1_Witness ==
    /\ baseline # 0
    /\ todo = 0
    /\ \E f \in Frames : f.pc = "done" /\ f.iv = Shocked
    /\ \E iv \in DOMAIN seen : seen[iv].first.kind = "ValueError"

\* every supplied instrument is in the catalogue and equals its default
Unchanged(values) ==
    \A i \in 1..Len(values) :
        /\ values[i][1] \in InstrumentKeys
        /\ values[i][2] = INSTRUMENT_MAP[values[i][1]].default

\* C2: a call in which no instrument is changed returns an impact of exactly 0
\* for every variable and every simulation year.
C2_ZeroImpacts ==
    \A f \in Frames :
        (f.pc = "done" /\ Unchanged(f.iv)) =>
            \A var \in DOMAIN f.out.impacts :
                \A t \in DOMAIN f.out.impacts[var] : f.out.impacts[var][t] = 0

\* C3: a call returns what the first call with the same instrument_values
\* returned (the same output, or the same error), whatever calls were made before
\* or between them.
C3_Deterministic ==
    \A f \in Frames :
        f.pc \in {"done", "raised"} =>
            /\ f.iv \in DOMAIN seen
            /\ f.out = seen[f.iv].first

\* the same valid instrument_values have been simulated twice, with a call on
\* other values among the three calls
C3_Witness ==
    /\ todo = 0
    /\ Cardinality(DOMAIN seen) = 2
    /\ \E f \in Frames : f.pc = "done" /\ f.iv = Shocked
    /\ Shocked \in DOMAIN seen /\ seen[Shocked].n = 2

\* min_val <= v <= max_val, as numbers compare: not-a-number is within no range
InRange(key, v) ==
    /\ fle(INSTRUMENT_MAP[key].min_val, v)
    /\ fle(v, INSTRUMENT_MAP[key].max_val)

\* the positions of the entries whose key is unknown or whose value is out of range
Offending(values) ==
    { i \in 1..Len(values) :
        values[i][1] \notin InstrumentKeys \/ ~InRange(values[i][1], values[i][2]) }

\* C4: a call whose instrument_values hold an unknown key, or a value outside
\* [min_val, max_val], raises a ValueError whose message starts with
\* 'Invalid instruments: ' before any panel is copied, any instrument applied or
\* the solver invoked: such a call is never past validation and owns no panel.
C4_InvalidRaises ==
    \A f \in Frames :
        Offending(f.iv) # {} =>
            /\ f.pc = "raised"
            /\ f.out.kind = "ValueError"
            /\ Head(f.out.message) = "Invalid instruments: "
            /\ f.bref = 0 /\ f.sref = 0

\* C5: validate_instruments returns the empty list exactly when no entry is
\* offending, and otherwise exactly one error for every offending key and none
\* for the others.
C5_ValidateExact ==
    ret.called =>
        /\ (ret.value = << >>) <=> (Offending(arg) = {})
        /\ Len(ret.value) = Cardinality(Offending(arg))
        /\ { ret.value[j].key : j \in 1..Len(ret.value) }
             = { arg[i][1] : i \in Offending(arg) }

\* the panels a frame refers to
Refs(f) == {f.bref, f.sref} \ {0}

\* the panels a step creates, drops or changes
Touched ==
    { r \in DOMAIN heap \cup DOMAIN heap' :
        \/ r \notin DOMAIN heap
        \/ r \notin DOMAIN heap'
        \/ heap[r] # heap'[r] }

\* a step of a call that found the baseline loaded touches the two panels of that
\* call only: never the cached baseline, never a panel of another call
OwnPanelsOnly ==
    \A th \in 1..threads :
        (frame'[th] # frame[th] /\ frame'[th].warm) =>
            /\ baseline' = baseline
            /\ Touched \subseteq (Refs(frame[th]) \cup Refs(frame'[th]))
            /\ baseline \notin Touched
            /\ \A o \in (1..threads) \ {th} :
                   /\ frame'[o] = frame[o]
                   /\ Touched \cap Refs(frame[o]) = {}

\* what each concurrent call returns is what the call returns when made alone
SameAsAlone ==
    \A f \in Frames :
        (f.pc = "done" /\ f.warm) => f.out = simulate_alone(base0, f.iv)

\* C6: with the baseline already loaded, concurrent simulate calls on one engine
\* share nothing: each returns the output it returns when made alone, and no call
\* writes a panel another call reads.
C6_ShareNothing == []SameAsAlone /\ [][OwnPanelsOnly]_vars

\* two calls that found the baseline loaded were both in the solver at once, and
\* one of them, with a changed instrument, has returned
ConcurrentCalls ==
    /\ threads = 2
    /\ frame[1].warm /\ frame[2].warm
    /\ frame[1].pc = "done" /\ frame[1].iv = Shocked
    /\ frame[2].pc = "inter" /\ frame[2].it = 2

C6_Witness == ConcurrentCalls

\* the writes of one pass over vars, in order
Pass(phase, vs) == [i \in 1..Len(vs) |-> <<phase, vs[i]>>]

RECURSIVE Times(_, _)
Times(s, n) == IF n = 0 THEN << >> ELSE s \o Times(s, n - 1)

\* C7: solve_year runs its three phases strictly in order: every pre equation is
\* written once, in registry order, before the first inter write; then the inter
\* pass is repeated, once per sweep; then every post equation is written once, in
\* registry order, after the last sweep, whether the loop ended CONVERGED or
\* MAX_ITERATIONS.
C7_PhaseOrder ==
    \A f \in Frames :
        JustSolved(f) =>
            LET r == f.results[Len(f.results)]
            IN  f.log = Pass("pre", SelectSeq(pre_order, InModel))
                        \o Times(Pass("inter", SelectSeq(inter_order, InModel)),
                                 r.iterations)
                        \o Pass("post", SelectSeq(post_order, InModel))

\* a year has ended at the iteration limit, after more than one sweep
C7_Witness ==
    \E f \in Frames :
        /\ JustSolved(f)
        /\ f.results[Len(f.results)].status = "MAX_ITERATIONS"
        /\ f.results[Len(f.results)].iterations > 1
        /\ Len(f.log) > Len(PreVars) + Len(InterVars) + Len(PostVars)

\* the steps solve_year has still to take, at most
Rank(f) ==
    CASE f.pc = "pre" ->
             (Len(PreVars) - f.vi + 1) + max_iter * (Len(InterVars) + 1)
             + Len(PostVars)
      [] f.pc = "inter" ->
             (max_iter - f.it) * (Len(InterVars) + 1) + (Len(InterVars) - f.vi + 1)
             + 1 + Len(PostVars)
      [] f.pc = "sweepend" ->
             (max_iter - f.it) * (Len(InterVars) + 1) + 1 + Len(PostVars)
      [] f.pc = "post" -> Len(PostVars) - f.vi + 1
      [] OTHER -> 0

InSolveYear(f) == f.pc \in {"pre", "inter", "sweepend", "post"}

\* every step inside solve_year brings its return nearer
RankDecreases ==
    \A th \in 1..threads :
        (InSolveYear(frame[th]) /\ frame'[th] # frame[th]) =>
            /\ Rank(frame'[th]) < Rank(frame[th])
            /\ Rank(frame'[th]) >= 0
            /\ InSolveYear(frame'[th]) \/ frame'[th].pc = "yearend"

\* the report counts the sweeps executed, at least one and at most max_iter
SweepCount ==
    \A f \in Frames :
        JustSolved(f) =>
            LET r == f.results[Len(f.results)]
            IN  /\ 1 <= r.iterations /\ r.iterations <= max_iter
                /\ r.iterations = Len(f.resids)
                /\ \A k \in 1..Len(f.resids) : Len(f.resids[k]) = Len(InterVars)

\* C8: solve_year executes at least 1 and at most max_iter inter sweeps, reports
\* as iterations the number of sweeps executed, and terminates.
C8_SweepBound == []SweepCount /\ [][RankDecreases]_vars

\* a year has ended at the limit, and a year of an earlier call after one sweep
C8_Witness ==
    /\ \E f \in Frames :
           /\ JustSolved(f)
           /\ f.results[Len(f.results)].iterations = max_iter
           /\ Len(f.resids) = max_iter
    /\ \E iv \in DOMAIN seen :
           /\ seen[iv].first.kind = "SimulationOutput"
           /\ seen[iv].first.convergence[1].iterations = 1

Max(S) == CHOOSE x \in S : \A y \in S : y <= x

\* the largest residual of a sweep; a residual that is not a number compares
\* with nothing and is no maximum
MaxResidual(rs) == Max(({ rs[i] : i \in 1..Len(rs) } \ {NaN}) \cup {0})

\* C9: a year's report is CONVERGED exactly when the last executed sweep had a
\* maximum residual below eps, that sweep being the first such; MAX_ITERATIONS
\* exactly when max_iter sweeps ran and none had; never DIVERGED; and its
\* max_residual is the maximum residual of the last executed sweep alone.
C9_StatusMeaning ==
    \A f \in Frames :
        JustSolved(f) =>
            LET r == f.results[Len(f.results)]
                n == Len(f.resids)
                below(k) == MaxResidual(f.resids[k]) < eps
            IN  /\ r.status \in {"CONVERGED", "MAX_ITERATIONS"}
                /\ r.status # "DIVERGED"
                /\ (r.status = "CONVERGED") <=> below(n)
                /\ \A k \in 1..(n - 1) : ~below(k)
                /\ (r.status = "MAX_ITERATIONS")
                       <=> (n = max_iter /\ \A k \in 1..n : ~below(k))
                /\ r.max_residual = MaxResidual(f.resids[n])

\* a year has ended at the limit with a last sweep whose maximum residual is
\* smaller than the maximum residual of its first sweep
C9_Witness ==
    \E f \in Frames :
        /\ JustSolved(f)
        /\ f.results[Len(f.results)].status = "MAX_ITERATIONS"
        /\ Len(f.resids) = max_iter
        /\ MaxResidual(f.resids[1]) > MaxResidual(f.resids[Len(f.resids)])

\* the panel the j-th equation of the sweep reads under Gauss-Seidel: the panel
\* at the start of the sweep with the values this sweep has written before it
Upstream(f, j) ==
    LET t == f.yrs[f.yi]
        idx(c) == CHOOSE i \in 1..(j - 1) : InterVars[i] = c
    IN  [f.start EXCEPT !.col =
            [c \in DOMAIN f.start.col |->
                IF \E i \in 1..(j - 1) : InterVars[i] = c
                THEN [f.start.col[c] EXCEPT ![t] = f.written[idx(c)]]
                ELSE f.start.col[c]]]

\* C10: within a sweep every inter equation reads, for the variables earlier in
\* the order, the values this sweep has already written, and for the others the
\* values the previous sweep (or the pre pass) left; what it writes is the
\* relaxation of its result against the value the variable had before.
C10_GaussSeidel ==
    \A f \in Frames :
        f.pc \in {"inter", "sweepend"} =>
            LET t == f.yrs[f.yi]
            IN  /\ \A j \in 1..Len(f.written) :
                       f.written[j] =
                           Relax(compute(InterVars[j], Upstream(f, j), t),
                                 get(f.start, InterVars[j], t))
                /\ heap[f.sref] = Upstream(f, Len(f.written) + 1)

\* a second sweep is under way, and what it has written differs from what the
\* previous sweep left
C10_Witness ==
    \E f \in Frames :
        /\ f.pc = "inter" /\ f.it = 2
        /\ Len(f.written) >= 10
        /\ \E j \in 1..Len(f.written) :
               f.written[j] # get(f.start, InterVars[j], f.yrs[f.yi])

\* the j-th update of the sweep under way: the cell value before it, the value
\* of the equation on the panel it read, the value written, the residual taken
Update(f, j) ==
    LET t == f.yrs[f.yi]
    IN  [ old |-> get(f.start, InterVars[j], t),
          raw |-> compute(InterVars[j], Upstream(f, j), t),
          relaxed |-> f.written[j],
          resid |-> f.resids[Len(f.resids)][j] ]

Updates ==
    UNION { { Update(f, j) : j \in 1..Len(f.written) } :
            f \in { g \in Frames : g.pc \in {"inter", "sweepend"} } }

Numbers(u) == ~IsNaN(u.old) /\ ~IsNaN(u.raw)

\* relaxed = w * raw + (1 - w) * old with w = 0.2, each product and the sum a
\* float operation
RelaxedAsWritten(u) ==
    u.relaxed = fadd(fmul(Fx(2, 10), u.raw), fmul(fsub(One, Fx(2, 10)), u.old))

\* |relaxed - old| / |old| when |old| > 1e-10, |relaxed - old| otherwise
ResidualAsTaken(u) ==
    u.resid = IF IsNaN(u.relaxed) \/ IsNaN(u.old) THEN NaN
              ELSE IF u.old # 0
                   THEN (fabs(u.relaxed - u.old) * 100 * SCALE) \div fabs(u.old)
                   ELSE fabs(u.relaxed - u.old) * 100

Lo(u) == IF u.old <= u.raw THEN u.old ELSE u.raw

Hi(u) == IF u.old <= u.raw THEN u.raw ELSE u.old

InSolve(f) == f.pc \in {"pre", "inter", "sweepend", "post", "yearend"}

\* the cells of panel q that differ from panel p, as <<column, year>>
Changed(p, q) ==
    { cy \in (DOMAIN p.col \cup DOMAIN q.col) \X (YearSet(p) \cup YearSet(q)) :
        \/ cy[1] \notin DOMAIN p.col
        \/ cy[1] \notin DOMAIN q.col
        \/ p.col[cy[1]][cy[2]] # q.col[cy[1]][cy[2]] }

\* the years solve is given ascend, a year is taken up when the one before has
\* its report, and the reports are those of the years done, in order
YearsInOrder ==
    \A f \in Frames :
        (InSolve(f) \/ f.pc = "package") =>
            /\ \A i \in 1..(Len(f.yrs) - 1) : f.yrs[i] < f.yrs[i + 1]
            /\ Len(f.results) = IF f.pc = "package" THEN Len(f.yrs) ELSE f.yi - 1
            /\ \A i \in 1..Len(f.results) : f.results[i].year = f.yrs[i]

\* while a year is solved no cell of another year is written, so what a lagged
\* read returns is what the year before was left with; the solve goes on to the
\* next year or to the end, whatever the status, and nothing is raised
OneYearAtATime ==
    \A th \in 1..threads :
        (InSolve(frame[th]) /\ frame'[th] # frame[th]) =>
            LET f == frame[th]
                g == frame'[th]
            IN  /\ g.pc # "raised"
                /\ InSolve(g) \/ g.pc = "package"
                /\ g.yi = IF f.pc = "yearend" /\ g.pc # "package" THEN f.yi + 1
                          ELSE f.yi
                /\ f.pc = "yearend" => g.results = Append(f.results,
                       [year |-> f.yrs[f.yi], iterations |-> f.iterations,
                        max_residual |-> f.max_resid, status |-> f.status])
                /\ \A cy \in Changed(heap[f.sref], heap'[f.sref]) :
                       cy[2] = f.yrs[f.yi]

\* C12: solve takes the simulation years in ascending order, one at a time, all
\* three phases of a year before anything of the next, so a lagged read made in
\* year t+1 returns the final value of year t; it never raises, and returns one
\* report per simulation year, in order, going on after a MAX_ITERATIONS year.
C12_YearOrder == []YearsInOrder /\ [][OneYearAtATime]_vars

\* the second year has been solved after a first year that ended at the limit
C12_Witness ==
    \E f \in Frames :
        /\ f.pc = "package"
        /\ Len(f.results) = 2
        /\ f.results[1].status = "MAX_ITERATIONS"
        /\ f.results[1].year + 1 = f.results[2].year

\* the lag-base row of the scenario panel is the row the baseline was loaded with
LagBaseKept ==
    \A f \in Frames :
        (f.pc = "apply" \/ InSolve(f) \/ f.pc = "package") =>
            LET q == heap[f.sref]
            IN  /\ Head(years(q)) \notin SeqToSet(f.yrs)
                /\ \A c \in DOMAIN base0.col :
                       q.col[c][Head(years(q))] = base0.col[c][Head(years(base0))]

\* apply_instruments changes, in the columns the panel had, cells of simulation
\* years only; a step of solve_year(t) changes cells of year t only
SimulationYearsOnly ==
    \A th \in 1..threads :
        ((frame[th].pc = "apply" \/ InSolve(frame[th])) /\ frame'[th] # frame[th]) =>
            LET f == frame[th]
                before == heap[f.sref]
            IN  \A cy \in Changed(before, heap'[f.sref]) :
                    cy[1] \in DOMAIN before.col =>
                        /\ cy[2] \in SeqToSet(f.yrs)
                        /\ cy[2] # Head(years(before))
                        /\ InSolve(f) => cy[2] = f.yrs[f.yi]

\* C13: the lag-base year is read-only during a simulation: apply_instruments and
\* solve write cells of simulation years only, solve_year(t) cells of year t only,
\* so in every column the panel had, the lag-base value and the values of the
\* years not being solved are unchanged.
C13_LagBaseReadOnly == []LagBaseKept /\ [][SimulationYearsOnly]_vars

\* the last year has been solved in a scenario with a changed instrument, and the
\* year before it differs from the baseline's
C13_Witness ==
    \E f \in Frames :
        /\ f.pc = "package" /\ f.iv = Shocked /\ Len(f.yrs) = 2
        /\ heap[f.sref].col["GDP_"][f.yrs[1]] # base0.col["GDP_"][f.yrs[1]]
        /\ heap[f.sref].col["GDP_"][f.yrs[2]] # base0.col["GDP_"][f.yrs[2]]

\* ------------------------------------------------------------------ the registry alone
\* an equation object: its class, its name (the target) and its depends_on
Eq(c, n, d) == [cls |-> c, name |-> n, depends_on |-> d]

\* all_eq_classes: PRODUCTION, LABOR, BEHAVIORAL, PRICE, IDENTITY,
\* PUBLIC_FINANCE and FOREIGN equations, in this order
all_eq_classes ==
    << Eq("TFPEquation", "TFP_", << >>),
       Eq("CapitalEquation", "K_", << "IF_" >>),
       Eq("OutputEquation", "Y_", << "TFP_", "K_", "LH_" >>),
       Eq("PotentialOutputEquation", "YSTAR_", << "TFP_", "K_", "NAT_", "NG_" >>),
       Eq("OutputGapEquation", "YGAP_", << "Y_", "YSTAR_" >>),
       Eq("CapacityUtilizationEquation", "ZKF_", << "Y_", "YSTAR_" >>),
       Eq("LabourHoursEquation", "LH_", << "Y_", "K_", "TFP_" >>),
       Eq("EmploymentEquation", "L_", << "LH_" >>),
       Eq("UnemploymentEquation", "U_", << "NAT_", "L_", "NG_" >>),
       Eq("UnemploymentRateEquation", "UR_", << "U_", "NAT_" >>),
       Eq("WageEquation", "W_", << "PC_", "Y_", "LH_", "L_", "UR_" >>),
       Eq("PublicWageEquation", "WG_", << "PC_" >>),
       Eq("ConsumptionEquation", "C_", << "YDH_", "PC_", "UR_", "RREAL_" >>),
       Eq("BusinessInvestmentEquation", "IF_", << "Y_", "PROFIT_", "RREAL_", "ZKF_" >>),
       Eq("HousingInvestmentEquation", "IH_", << "YDH_", "PC_", "RMORT_" >>),
       Eq("ExportVolumeEquation", "X_", << "XWORLD_", "PX_", "PCOMP_" >>),
       Eq("ImportVolumeEquation", "M_", << "DD_", "PM_", "PC_" >>),
       Eq("UnitLabourCostEquation", "ULC_", << "W_", "L_", "Y_" >>),
       Eq("MacroCostEquation", "COST_", << "ULC_", "PM_" >>),
       Eq("ConsumerPriceEquation", "PC_", << "COST_", "PM_", "YGAP_", "ITPC0R_" >>),
       Eq("BusinessInvestmentDeflatorEquation", "PIF_", << "COST_", "PM_" >>),
       Eq("HousingInvestmentDeflatorEquation", "PIH_", << "COST_", "PM_" >>),
       Eq("PublicInvestmentDeflatorEquation", "PIG_", << "COST_", "PM_" >>),
       Eq("ExportPriceEquation", "PX_", << "COST_", "PCOMP_" >>),
       Eq("ImportPriceEquation", "PM_", << >>),
       Eq("PublicInvestmentEquation", "IG_", << >>),
       Eq("PublicConsumptionEquation", "CG_", << "WG_", "NG_" >>),
       Eq("StockChangeEquation", "DS_", << "Y_" >>),
       Eq("DomesticDemandEquation", "DD_", << "C_", "IF_", "IH_", "IG_", "CG_", "DS_" >>),
       Eq("GDPEquation", "GDP_", << "DD_", "X_", "M_" >>),
       Eq("GDPDeflatorEquation", "PGDP_", << "PC_", "PIF_", "PIG_", "PIH_", "PX_", "PM_", "C_", "IF_", "IG_", "IH_", "X_", "M_", "CG_" >>),
       Eq("NominalGDPEquation", "GDPN_", << "GDP_", "PGDP_" >>),
       Eq("TotalInvestmentEquation", "I_", << "IF_", "IH_", "IG_" >>),
       Eq("ProfitEquation", "PROFIT_", << "Y_", "W_", "L_", "PC_", "K_" >>),
       Eq("RealInterestRateEquation", "RREAL_", << "RNOM_", "PC_" >>),
       Eq("MortgageRateEquation", "RMORT_", << "RNOM_" >>),
       Eq("LabourForceEquation", "NAT_", << >>),
       Eq("PublicEmploymentEquation", "NG_", << >>),
       Eq("DisposableIncomeEquation", "YDH_", << "W_", "L_", "WG_", "NG_", "PC_", "DTH_", "TGH_" >>),
       Eq("TransfersEquation", "TGH_", << "PC_" >>),
       Eq("VATRateEquation", "ITPC0R_", << >>),
       Eq("EmployerSSCRateEquation", "CSSFR_", << >>),
       Eq("EmployeeSSCRateEquation", "CSSHR_", << >>),
       Eq("NominalInterestRateEquation", "RNOM_", << >>),
       Eq("WorldDemandEquation", "XWORLD_", << >>),
       Eq("CompetitorPriceEquation", "PCOMP_", << >>),
       Eq("WageBillEquation", "WB_", << "W_", "L_", "WG_", "NG_" >>),
       Eq("ProductivityEquation", "PROD_", << "Y_", "LH_" >>),
       Eq("GovernmentReceiptsEquation", "GRECEIPTS_", << "W_", "L_", "WG_", "NG_", "C_", "PC_", "ITPC0R_", "CSSFR_", "CSSHR_", "GDPN_" >>),
       Eq("GovernmentExpenditureEquation", "GEXPENSE_", << "CG_", "PC_", "IG_", "PIG_", "TGH_", "B_", "GDPN_" >>),
       Eq("DeficitEquation", "D_", << "GRECEIPTS_", "GEXPENSE_" >>),
       Eq("DebtEquation", "B_", << "D_" >>),
       Eq("DeficitRatioEquation", "DR_", << "D_", "GDPN_" >>),
       Eq("DebtRatioEquation", "BR_", << "B_", "GDPN_" >>),
       Eq("NominalExportsEquation", "XN_", << "X_", "PX_" >>),
       Eq("NominalImportsEquation", "MN_", << "M_", "PM_" >>),
       Eq("TradeBalanceEquation", "TB_", << "XN_", "MN_" >>),
       Eq("TradeBalanceRatioEquation", "TBR_", << "TB_", "GDPN_" >>) >>

\* registry.get(var) of an unknown name
None == [cls |-> "None", name |-> "", depends_on |-> << >>]

GetVars == SeqToSet(all_variables) \cup {"BOGUS"}

\* EquationRegistry.__init__: no equation, empty orders
InitRegistry ==
    /\ threads = 1
    /\ todo = 0
    /\ file = FlatFile(NYears)
    /\ InitEngine
    /\ arg = [ equations |-> << >>, next |-> 1, built |-> FALSE,
               pre_order |-> << >>, inter_order |-> << >>, post_order |-> << >> ]
    /\ ret = NotCalled

\* _build, the loop: eq = cls(); self._equations[eq.name] = eq
Register ==
    /\ ~arg.built
    /\ arg.next <= Len(all_eq_classes)
    /\ LET eq == all_eq_classes[arg.next]
       IN  arg' = [arg EXCEPT
                      !.equations = (eq.name :> eq)
                                    @@ [n \in (DOMAIN @) \ {eq.name} |-> @[n]],
                      !.next = @ + 1]
    /\ UNCHANGED << threads, todo, file, baseline, heap, frame, base0, seen, ret >>

\* _build, the three lists
SetOrders ==
    /\ ~arg.built
    /\ arg.next > Len(all_eq_classes)
    /\ arg' = [arg EXCEPT !.pre_order = pre_order, !.inter_order = inter_order,
                          !.post_order = post_order, !.built = TRUE]
    /\ UNCHANGED << threads, todo, file, baseline, heap, frame, base0, seen, ret >>

\* registry.get(var): self._equations.get(var)
RegistryGet(var) ==
    /\ arg.built
    /\ ret' = [called |-> TRUE, var |-> var,
               value |-> IF var \in DOMAIN arg.equations THEN arg.equations[var]
                         ELSE None]
    /\ UNCHANGED << threads, todo, file, baseline, heap, frame, base0, seen, arg >>

NextRegistry == Register \/ SetOrders \/ \E var \in GetVars : RegistryGet(var)

\* the registry is built, then asked for equations
SpecRegistry == InitRegistry /\ [][NextRegistry]_vars

Listed(r) == r.pre_order \o r.inter_order \o r.post_order

\* C14: the pre, inter and post lists partition the equation set: no name occurs
\* twice in a list or in two lists, get(v) returns an equation named v for every
\* listed v, and the target of every registered equation is in one of the lists.
C14_ListsPartition ==
    arg.built =>
        /\ Cardinality(SeqToSet(Listed(arg))) = Len(Listed(arg))
        /\ \A v \in SeqToSet(Listed(arg)) :
               v \in DOMAIN arg.equations /\ arg.equations[v].name = v
        /\ \A i \in 1..Len(all_eq_classes) :
               /\ all_eq_classes[i].name \in SeqToSet(Listed(arg))
               /\ arg.equations[all_eq_classes[i].name] = all_eq_classes[i]
        /\ (ret.called /\ ret.var \in SeqToSet(Listed(arg))) =>
               (ret.value # None /\ ret.value.name = ret.var)

\* the built registry has been asked for the last post equation
C14_Witness ==
    /\ arg.built
    /\ Len(Listed(arg)) = Len(all_eq_classes)
    /\ ret.called /\ ret.var = "TBR_" /\ ret.value.cls = "TradeBalanceRatioEquation"

\* position of v in list s
Index(s, v) == CHOOSE i \in 1..Len(s) : s[i] = v

Sorted(r, s) ==
    \A i \in 1..Len(s) :
        \A dep \in SeqToSet(r.equations[s[i]].depends_on) :
            dep \in SeqToSet(s) => Index(s, dep) < i

\* C15: the order within pre and within post is a topological sort of the list's
\* dependency subgraph: a name in depends_on of v that is in the list of v comes
\* before v.
C15_TopologicalOrder ==
    arg.built => Sorted(arg, arg.pre_order) /\ Sorted(arg, arg.post_order)

\* the built registry has dependencies inside pre and inside post
C15_Witness ==
    /\ arg.built
    /\ "RNOM_" \in SeqToSet(arg.equations["RMORT_"].depends_on)
    /\ "RNOM_" \in SeqToSet(arg.pre_order) /\ "RMORT_" \in SeqToSet(arg.pre_order)
    /\ "TB_" \in SeqToSet(arg.equations["TBR_"].depends_on)
    /\ "TB_" \in SeqToSet(arg.post_order) /\ "TBR_" \in SeqToSet(arg.post_order)

\* ------------------------------------------------------------------ apply_instruments alone
MaxApply == 2        \* entries of an instrument_values argument of apply_instruments

ApplyKeys == {"VIG_X", "ITPC0R_X", "CSSFR_X", "CSSHR_X"}

ApplyEntrySet ==
    UNION { { <<k, INSTRUMENT_MAP[k].default + Shock>>, <<k, INSTRUMENT_MAP[k].max_val>> } :
            k \in ApplyKeys }

ApplyValues == UNION { DictsOfLen(n, ApplyEntrySet) : n \in 0..MaxApply }

\* a panel as loaded (no instrument column, no ITPC0R_, CSSFR_, CSSHR_ column)
\* and the panel the ensure pass makes of it
ApplyPanels == { FlatFile(NYears), _ensure_variables(FlatFile(NYears)) }

InitApply ==
    /\ threads = 1
    /\ todo = 0
    /\ file = FlatFile(NYears)
    /\ InitEngine
    /\ \E p \in ApplyPanels, d \in ApplyValues :
           \E yrs \in { sim_years(p), Tail(sim_years(p)) } :
               arg = [state |-> p, instrument_values |-> d, sim_years |-> yrs]
    /\ ret = NotCalled

CallApply ==
    /\ ~ret.called
    /\ ret' = [called |-> TRUE,
               value |-> apply_instruments(arg.state, arg.instrument_values,
                                           arg.sim_years)]
    /\ UNCHANGED << threads, todo, file, baseline, heap, frame, base0, seen, arg >>

NextApply == CallApply

\* apply_instruments called once on each argument
SpecApply == InitApply /\ [][NextApply]_vars

\* the equation inputs written for the keys present: <<column, value>>
Mapped(d) ==
    { <<"ITPC0R_", DictGet(d, "ITPC0R_X")>> : k \in {"ITPC0R_X"} \cap DictKeys(d) }
    \cup { <<"CSSFR_", DictGet(d, "CSSFR_X") \div 100>> :
           k \in {"CSSFR_X"} \cap DictKeys(d) }
    \cup { <<"CSSHR_", DictGet(d, "CSSHR_X") \div 100>> :
           k \in {"CSSHR_X"} \cap DictKeys(d) }

\* C16: after apply_instruments(panel, values, sim_years), for every simulation
\* year t every cell (key, t) holds val, ITPC0R_(t) = ITPC0R_X, CSSFR_(t) =
\* CSSFR_X/100 and CSSHR_(t) = CSSHR_X/100 for the keys in values, and no other
\* cell of a column the panel had is changed.
C16_ApplyWrites ==
    ret.called =>
        LET p == arg.state
            q == ret.value
            d == arg.instrument_values
            targets == { d[i][1] : i \in 1..Len(d) } \cup { m[1] : m \in Mapped(d) }
        IN  /\ \A t \in SeqToSet(arg.sim_years) :
                   /\ \A i \in 1..Len(d) :
                          d[i][1] \in DOMAIN q.col /\ q.col[d[i][1]][t] = d[i][2]
                   /\ \A m \in Mapped(d) :
                          m[1] \in DOMAIN q.col /\ q.col[m[1]][t] = m[2]
            /\ DOMAIN p.col \subseteq DOMAIN q.col
            /\ q.yrs = p.yrs
            /\ \A c \in DOMAIN p.col : \A y \in YearSet(p) :
                   q.col[c][y] # p.col[c][y] =>
                       c \in targets /\ y \in SeqToSet(arg.sim_years)

\* applied to a loaded panel: an instrument column and a rate column have been
\* created, the rate written as a fraction, over two simulation years
C16_Witness ==
    /\ ret.called
    /\ Len(arg.sim_years) = 2
    /\ Len(arg.instrument_values) = 2
    /\ "CSSFR_X" \in DictKeys(arg.instrument_values)
    /\ "VIG_X" \in DictKeys(arg.instrument_values)
    /\ "CSSFR_" \notin DOMAIN arg.state.col
    /\ ret.value.col["CSSFR_"][arg.sim_years[2]] # DictGet(arg.instrument_values, "CSSFR_X")

\* ------------------------------------------------------------------ compute_impacts alone
\* a panel of the file's years with a ratio column and a level column, each the
\* same value every year
ImpactPanel(ur, gdp) ==
    [ yrs |-> FileYears(NYears),
      col |-> [c \in {"UR_", "GDP_"} |->
                 [y \in SeqToSet(FileYears(NYears)) |-> IF c = "UR_" THEN ur ELSE gdp]] ]

BaseValues == {0, NaN, Fx(2, 1), 0 - Fx(4, 1)}

ScenValues == {0, NaN, Fx(3, 1)}

InitImpact ==
    /\ threads = 1
    /\ todo = 0
    /\ file = FlatFile(NYears)
    /\ InitEngine
    /\ \E b1 \in BaseValues, b2 \in BaseValues, s1 \in ScenValues, s2 \in ScenValues :
           \E vs \in { << "UR_", "GDP_" >>, << "GDP_" >> } :
               arg = [ baseline |-> ImpactPanel(b1, b2), scenario |-> ImpactPanel(s1, s2),
                       variables |-> vs, sim_years |-> Tail(FileYears(NYears)) ]
    /\ ret = NotCalled

CallImpacts ==
    /\ ~ret.called
    /\ ret' = [called |-> TRUE,
               value |-> compute_impacts(arg.baseline, arg.scenario, arg.variables,
                                         arg.sim_years)]
    /\ UNCHANGED << threads, todo, file, baseline, heap, frame, base0, seen, arg >>

NextImpact == CallImpacts

\* compute_impacts called once on each argument
SpecImpact == InitImpact /\ [][NextImpact]_vars

\* the impact the contract gives for variable v with baseline b and scenario s
ImpactDue(v, b, s) ==
    IF v \in {"DR_", "UR_", "BR_", "TBR_", "YGAP_", "ZKF_"}
    THEN IF IsNaN(s) \/ IsNaN(b) THEN NaN ELSE (s - b) * 100
    ELSE IF ~IsNaN(b) /\ b # 0
         THEN IF IsNaN(s) THEN NaN ELSE (((s - b) * SCALE) \div b) * 100
         ELSE 0

\* C17: compute_impacts returns, for every requested variable and every
\* simulation year and for no other year, (scenario - baseline) * 100 for the six
\* ratio variables, otherwise (scenario - baseline) / baseline * 100 when
\* |baseline| > 1e-10, otherwise 0.
C17_ImpactFormula ==
    ret.called =>
        /\ DOMAIN ret.value = SeqToSet(arg.variables)
        /\ \A v \in DOMAIN ret.value :
               /\ DOMAIN ret.value[v] = SeqToSet(arg.sim_years)
               /\ \A t \in SeqToSet(arg.sim_years) :
                      ret.value[v][t] = ImpactDue(v, arg.baseline.col[v][t],
                                                  arg.scenario.col[v][t])

\* a ratio variable in percentage points, and a level variable with a zero
\* baseline, both with a scenario value that differs
C17_Witness ==
    /\ ret.called
    /\ arg.variables = << "UR_", "GDP_" >>
    /\ arg.baseline.col["GDP_"][FirstYear + 1] = 0
    /\ arg.scenario.col["GDP_"][FirstYear + 1] = Fx(3, 1)
    /\ ret.value["GDP_"][FirstYear + 1] = 0
    /\ arg.baseline.col["UR_"][FirstYear + 1] = Fx(2, 1)
    /\ ret.value["UR_"][FirstYear + 1] = Fx(100, 1)
    /\ FirstYear \notin DOMAIN ret.value["UR_"]

\* ------------------------------------------------------------------ SimulationState.copy alone
MaxOps == 3          \* set and add_var operations after the copy

\* a panel of two columns over the first two years of the file
SmallPanel ==
    [ yrs |-> FileYears(2),
      col |-> [c \in {"GDP_", "UR_"} |-> [y \in SeqToSet(FileYears(2)) |-> Fx(1, 1)]] ]

OriginalRef == 1

\* one panel, not yet copied; arg.side is the panel the operations will be made on
InitCopy ==
    /\ threads = 1
    /\ todo = 0
    /\ file = FlatFile(NYears)
    /\ baseline = 0
    /\ heap = (OriginalRef :> SmallPanel)
    /\ frame = [th \in 1..threads |-> IdleFrame]
    /\ base0 = NoPanel
    /\ seen = << >>
    /\ arg \in { [side |-> s, copyref |-> 0, ops |-> 0] : s \in {"copy", "original"} }
    /\ ret = NotCalled

\* c = original.copy(); base0 remembers the cells at this moment
CopyState ==
    /\ arg.copyref = 0
    /\ LET c == copy(heap, OriginalRef, OriginalRef + 1)
       IN  /\ heap' = c.heap
           /\ arg' = [arg EXCEPT !.copyref = c.ref]
    /\ base0' = heap[OriginalRef]
    /\ UNCHANGED << threads, todo, file, baseline, frame, seen, ret >>

OpRef == IF arg.side = "copy" THEN arg.copyref ELSE OriginalRef

\* state.set(var, t, value) on the panel of arg.side
SetCell(var, t, value) ==
    /\ arg.copyref # 0
    /\ arg.ops < MaxOps
    /\ heap' = [heap EXCEPT ![OpRef] = set(@, var, t, value)]
    /\ arg' = [arg EXCEPT !.ops = @ + 1]
    /\ UNCHANGED << threads, todo, file, baseline, frame, base0, seen, ret >>

\* state.add_var(var) on the panel of arg.side
AddVar(var) ==
    /\ arg.copyref # 0
    /\ arg.ops < MaxOps
    /\ heap' = [heap EXCEPT ![OpRef] = add_var(@, var, 0)]
    /\ arg' = [arg EXCEPT !.ops = @ + 1]
    /\ UNCHANGED << threads, todo, file, baseline, frame, base0, seen, ret >>

NextCopy ==
    \/ CopyState
    \/ \E var \in {"GDP_", "NEW_"}, t \in SeqToSet(FileYears(2)), value \in {0, Fx(2, 1)} :
           SetCell(var, t, value)
    \/ \E var \in {"UR_", "NEW_", "MORE_"} : AddVar(var)

\* a panel is copied, then one of the two is written
SpecCopy == InitCopy /\ [][NextCopy]_vars

\* C18: copy() yields an independent panel with the same years, columns and
\* cells: whatever set and add_var do to the copy, the original is unchanged,
\* and whatever they do to the original, the copy is unchanged.
C18_CopyIndependent ==
    arg.copyref # 0 =>
        /\ arg.copyref # OriginalRef
        /\ arg.ops = 0 => heap[arg.copyref] = heap[OriginalRef]
        /\ arg.side = "copy" => heap[OriginalRef] = base0
        /\ arg.side = "original" => heap[arg.copyref] = base0

\* three operations have changed a cell and added a column on one side
C18_Witness ==
    /\ arg.copyref # 0
    /\ arg.ops = MaxOps
    /\ "NEW_" \in DOMAIN heap[OpRef].col
    /\ heap[OpRef].col["GDP_"][FirstYear] = 0
    /\ heap[OpRef].col["GDP_"] # base0.col["GDP_"]


\* ------------------------------------------------------------------ _ensure_variables alone
MaxRuns == 3         \* runs of the pass on one panel

\* the columns and values of the cell a baseline file changes in the flat file
EditVars == {"GDP_", "K_", "W_", "PM_", "RNOM_"}

EditValues == {0, 0 - One}

\* columns a baseline file may hold beside the required ones, the same value
\* every year
ExtraColumns ==
    { << >>, <<"Y_", 0>>, <<"ULC_", 0>>, <<"ULC_", 0 - Fx(1, 2)>>, <<"RMORT_", 0>>,
      <<"COST_", 0>>, <<"PROFIT_", Fx(1, 10)>> }

WithExtra(p, x) == IF x = << >> THEN p ELSE add_var(p, x[1], x[2])

\* the states load_state can return: files of NYears years that hold every
\* required column
EnsureInputs ==
    { WithExtra(q, x) :
        q \in {FlatFile(NYears)}
              \cup { set(FlatFile(NYears), var, t, value) :
                       var \in EditVars, t \in SeqToSet(FileYears(NYears)),
                       value \in EditValues },
        x \in ExtraColumns }

\* self._baseline = self._loader.load_state()
InitEnsure ==
    /\ threads = 1
    /\ todo = 0
    /\ file \in EnsureInputs
    /\ baseline = BaselineRef
    /\ heap = (BaselineRef :> file)
    /\ frame = [th \in 1..threads |-> IdleFrame]
    /\ base0 = NoPanel
    /\ seen = << >>
    /\ arg = [runs |-> 0]
    /\ ret = NotCalled

\* self._ensure_variables(self._baseline); base0 remembers the panel the first
\* run has left
RunEnsure ==
    /\ arg.runs < MaxRuns
    /\ \E q \in { _ensure_variables(heap[baseline]) } :
           /\ heap' = [heap EXCEPT ![baseline] = q]
           /\ base0' = IF arg.runs = 0 THEN q ELSE base0
    /\ arg' = [arg EXCEPT !.runs = @ + 1]
    /\ UNCHANGED << threads, todo, file, baseline, frame, seen, ret >>

NextEnsure == RunEnsure

\* the pass is run again and again on the baseline
SpecEnsure == InitEnsure /\ [][NextEnsure]_vars

\* C19: _ensure_variables is idempotent: a run on a panel the pass has already
\* processed changes no cell and adds no column.
C19_EnsureIdempotent ==
    arg.runs >= 1 =>
        /\ heap[baseline] = base0
        /\ DOMAIN heap[baseline].col = DOMAIN base0.col
        /\ _ensure_variables(heap[baseline]) = heap[baseline]

\* the pass has run again on a panel where its first run replaced a zero, left
\* a zero in an ensured column and added columns
C19_Witness ==
    /\ arg.runs >= 2
    /\ \E var \in SeqToSet(ensured), t \in YearSet(file) :
           /\ has_var(file, var)
           /\ get(file, var, t) = 0
           /\ get(base0, var, t) # 0
    /\ \E var \in SeqToSet(ensured), t \in YearSet(file) : get(base0, var, t) = 0
    /\ DOMAIN base0.col # DOMAIN file.col


ZkfInBounds(q, t) ==
    /\ fle(Fx(80, 100), get(q, "ZKF_", t))
    /\ fle(get(q, "ZKF_", t), Fx(110, 100))

\* C20: after solve, every simulation year t has 0.80 <= ZKF_(t) <= 1.10,
\* whatever the ZKF_ cell held before the year was solved, the 0.0 of a column
\* the ensure pass added included.
C20_ZkfBounded ==
    \A f \in Frames :
        f.pc = "package" => \A t \in SeqToSet(f.yrs) : ZkfInBounds(heap[f.sref], t)


\* ------------------------------------------------------------------ identities after solve
\* |a - b| is at most a hundredth
Near(a, b) == ~IsNaN(a) /\ ~IsNaN(b) /\ fabs(a - b) <= Fx(1, 100)

LabourIdentity(q, t) ==
    Near(fadd(fadd(get(q, "U_", t), get(q, "L_", t)), get(q, "NG_", t)),
         get(q, "NAT_", t))

\* C21: after solve, every simulation year t has U_(t) + L_(t) + NG_(t) = NAT_(t)
\* in the solved panel, up to floating-point error.
C21_LabourIdentity ==
    \A f \in Frames :
        f.pc = "package" => \A t \in SeqToSet(f.yrs) : LabourIdentity(heap[f.sref], t)


\* C22: after solve, for every simulation year t with GDPN_(t) # 0, DR_(t) is
\* D_(t) / GDPN_(t) of the final D_ and GDPN_ of that year.
C22_DeficitRatio ==
    \A f \in Frames :
        f.pc = "package" =>
            \A t \in SeqToSet(f.yrs) :
                LET q == heap[f.sref]
                IN  ~feq(get(q, "GDPN_", t), 0) =>
                        get(q, "DR_", t) = fdiv(get(q, "D_", t), get(q, "GDPN_", t))

\* two years solved, the first ended at the limit, and in each the ratio is a
\* number other than zero and other than the ratio of the baseline's D_ and GDPN_
C22_Witness ==
    \E f \in Frames :
        /\ f.pc = "package"
        /\ Len(f.yrs) = 2
        /\ f.results[1].status = "MAX_ITERATIONS"
        /\ \A t \in SeqToSet(f.yrs) :
               LET q == heap[f.sref]
               IN  /\ ~IsNaN(get(q, "DR_", t))
                   /\ get(q, "DR_", t) # 0
                   /\ get(q, "GDPN_", t) # 0
                   /\ get(q, "DR_", t) # DeficitRatioEquation(heap[f.bref], t)


\* ------------------------------------------------------------------ log-change equations alone
\* PublicWageEquation.compute on a panel whose WGRR_X is absent or 0.0, where
\* safe_exp(dln_pc + wgrr / 100.0) is safe_exp(dln_pc)
PublicWageEquation(p, t) == fmul(lag(p, "WG_", t), SafeExpDln(p, "PC_", t))

\* the value of the target in the year before
LogPrev == {0 - Fx(2, 1), 0, Fx(3, 1)}

\* PC_ in the year before and in the year
LogPrices == {0, One, Fx(11, 10), Fx(2, 1)}

\* the instrument column: absent (an empty tuple) or the same value in every year
LogShocks == {<< >>, <<0>>, <<Fx(10, 1)>>}

LogPanel(target, prev, pc_1, pc, x) ==
    LET yrs == FileYears(2)
        q == [ yrs |-> yrs,
               col |-> [c \in {target, "PC_"} |->
                          [y \in SeqToSet(yrs) |->
                              IF c = "PC_" THEN (IF y = yrs[1] THEN pc_1 ELSE pc)
                              ELSE prev]] ]
    IN  IF x = << >> THEN q
        ELSE add_var(q, IF target = "TGH_" THEN "TGH_X" ELSE "WGRR_X", x[1])

LogInputs ==
    { [target |-> "TGH_", p |-> LogPanel("TGH_", prev, pc_1, pc, x)] :
        prev \in LogPrev, pc_1 \in LogPrices, pc \in LogPrices, x \in LogShocks }
    \cup
    { [target |-> "WG_", p |-> LogPanel("WG_", prev, pc_1, pc, x)] :
        prev \in LogPrev, pc_1 \in LogPrices, pc \in LogPrices, x \in {<< >>, <<0>>} }

InitLogChange ==
    /\ threads = 1
    /\ todo = 0
    /\ file = FlatFile(NYears)
    /\ baseline = 0
    /\ heap = << >>
    /\ frame = [th \in 1..threads |-> IdleFrame]
    /\ base0 = NoPanel
    /\ seen = << >>
    /\ arg \in LogInputs
    /\ ret = NotCalled

\* eq.compute(state, t, scalars) for the second year of the panel
CallLogChange ==
    /\ ret = NotCalled
    /\ LET t == arg.p.yrs[2]
       IN  ret' = [ called |-> TRUE,
                    prev |-> lag(arg.p, arg.target, t),
                    value |-> IF arg.target = "TGH_" THEN TransfersEquation(arg.p, t)
                              ELSE PublicWageEquation(arg.p, t) ]
    /\ UNCHANGED << threads, todo, file, baseline, heap, frame, base0, seen, arg >>

NextLogChange == CallLogChange

SpecLogChange == InitLogChange /\ [][NextLogChange]_vars

\* C23: a log-change-form equation returns prev = lag(target, t) unchanged
\* whenever prev <= 0, whatever the other inputs and the instruments are.
C23_GuardReturnsPrev ==
    (ret.called /\ fle(ret.prev, 0)) => ret.value = ret.prev


\* ------------------------------------------------------------------ state.py: lag, dln, grt alone
\* what a call gives: the value it returns or the exception it raises
Returned(v) == [kind |-> "return", value |-> v]

Raised(e) == [kind |-> e]

\* self._df.at[t, var] read: KeyError for a year or a column the frame has not
at(p, t, var) ==
    IF var \in DOMAIN p.col /\ t \in YearSet(p) THEN Returned(p.col[var][t])
    ELSE Raised("KeyError")

\* math.log(x): ValueError (math domain error) for x <= 0, nan for nan
math_log(x) ==
    IF IsNaN(x) THEN Returned(NaN)
    ELSE IF x <= 0 THEN Raised("ValueError")
    ELSE Returned(LogPositive(x))

\* a / b of two floats: ZeroDivisionError for b = 0
truediv(a, b) ==
    IF feq(b, 0) THEN Raised("ZeroDivisionError") ELSE Returned(fdiv(a, b))

\* SimulationState.lag(var, t, n) with the failure of the read
state_lag_clipped(p, var, t, n) ==
    IF t - n \in YearSet(p) THEN at(p, t - n, var) ELSE at(p, Head(years(p)), var)

state_lag(p, var, t, n) == at(p, t - n, var)

\* SimulationState.dln(var, t) with the failures of its reads and logarithms
state_dln_unguarded(p, var, t) ==
    LET cur == at(p, t, var)
        prev == state_lag(p, var, t, 1)
    IN  IF cur.kind # "return" THEN cur
        ELSE IF prev.kind # "return" THEN prev
        ELSE LET a == math_log(cur.value)
                 b == math_log(prev.value)
             IN  IF a.kind # "return" THEN a
                 ELSE IF b.kind # "return" THEN b
                 ELSE Returned(fsub(a.value, b.value))

state_dln(p, var, t) ==
    LET cur == at(p, t, var)
        prev == state_lag(p, var, t, 1)
    IN  IF cur.kind # "return" THEN cur
        ELSE IF prev.kind # "return" THEN prev
        ELSE IF fle(cur.value, 0) \/ fle(prev.value, 0) THEN Returned(0)
        ELSE LET a == math_log(cur.value)
                 b == math_log(prev.value)
             IN  IF a.kind # "return" THEN a
                 ELSE IF b.kind # "return" THEN b
                 ELSE Returned(fsub(a.value, b.value))

\* SimulationState.grt(var, t) with the failures of its reads and division
state_grt(p, var, t) ==
    LET prev == state_lag(p, var, t, 1)
        cur == at(p, t, var)
    IN  IF prev.kind # "return" THEN prev
        ELSE IF feq(prev.value, 0) THEN Returned(0)
        ELSE IF cur.kind # "return" THEN cur
        ELSE LET q == truediv(fsub(cur.value, prev.value), prev.value)
             IN  IF q.kind # "return" THEN q ELSE Returned(fmuln(q.value, 100))


\* the values a cell of the panel may hold
OpsValues == {0 - One, 0, One, Fx(2, 1), NaN}

\* panels of one column over the years of the file
OpsPanels ==
    { [ yrs |-> FileYears(NYears), col |-> [c \in {"GDP_"} |-> cells] ] :
        cells \in [SeqToSet(FileYears(NYears)) -> OpsValues] }

\* the years a call is made for: the years of the file and the year after
OpsYears == SeqToSet(FileYears(NYears + 1))

InitOps ==
    /\ threads = 1
    /\ todo = 0
    /\ file = FlatFile(NYears)
    /\ baseline = BaselineRef
    /\ heap \in { (BaselineRef :> p) : p \in OpsPanels }
    /\ frame = [th \in 1..threads |-> IdleFrame]
    /\ base0 = heap[BaselineRef]
    /\ seen = << >>
    /\ arg = [op |-> "none"]
    /\ ret = NotCalled

\* state.lag(var, t, n)
CallLag(var, t, n) ==
    /\ ret = NotCalled
    /\ arg' = [op |-> "lag", var |-> var, t |-> t, n |-> n]
    /\ ret' = [called |-> TRUE, out |-> state_lag(heap[baseline], var, t, n)]
    /\ UNCHANGED << threads, todo, file, baseline, heap, frame, base0, seen >>

\* state.dln(var, t)
CallDln(var, t) ==
    /\ ret = NotCalled
    /\ arg' = [op |-> "dln", var |-> var, t |-> t, n |-> 1]
    /\ ret' = [called |-> TRUE, out |-> state_dln(heap[baseline], var, t)]
    /\ UNCHANGED << threads, todo, file, baseline, heap, frame, base0, seen >>

\* state.grt(var, t)
CallGrt(var, t) ==
    /\ ret = NotCalled
    /\ arg' = [op |-> "grt", var |-> var, t |-> t, n |-> 1]
    /\ ret' = [called |-> TRUE, out |-> state_grt(heap[baseline], var, t)]
    /\ UNCHANGED << threads, todo, file, baseline, heap, frame, base0, seen >>

NextOps ==
    \/ \E t \in OpsYears, n \in {1, 2} : CallLag("GDP_", t, n)
    \/ \E t \in OpsYears : CallDln("GDP_", t)
    \/ \E t \in OpsYears : CallGrt("GDP_", t)

SpecOps == InitOps /\ [][NextOps]_vars

\* the current and the lagged cell of the call made, when both years are known
OpsCur == heap[baseline].col[arg.var][arg.t]

OpsPrev == heap[baseline].col[arg.var][arg.t - 1]

OpsKnown == arg.t \in YearSet(heap[baseline]) /\ arg.t - 1 \in YearSet(heap[baseline])

\* C24: dln(var, t) returns 0.0 whenever the current or the lagged value is <= 0
\* and ln(cur) - ln(prev) otherwise; grt(var, t) returns 0.0 whenever the lagged
\* value is 0 and (cur - prev) / prev * 100 otherwise; neither fails.
C24_GuardsReturnZero ==
    (ret.called /\ OpsKnown) =>
        /\ arg.op = "dln" =>
               ret.out = IF fle(OpsCur, 0) \/ fle(OpsPrev, 0) THEN Returned(0)
                         ELSE IF IsNaN(OpsCur) \/ IsNaN(OpsPrev) THEN Returned(NaN)
                         ELSE Returned(LogPositive(OpsCur) - LogPositive(OpsPrev))
        /\ arg.op = "grt" =>
               ret.out = IF feq(OpsPrev, 0) THEN Returned(0)
                         ELSE Returned(fmuln(fdiv(fsub(OpsCur, OpsPrev), OpsPrev), 100))

\* dln has returned 0.0 for a cell that is not positive
C24_Witness ==
    /\ ret.called /\ OpsKnown
    /\ arg.op = "dln"
    /\ OpsCur = 0 - One
    /\ OpsPrev = One
    /\ ret.out = Returned(0)

\* grt has returned 0.0 for a lagged value of 0 and a current value that is not 0
C24_WitnessGrt ==
    /\ ret.called /\ OpsKnown
    /\ arg.op = "grt"
    /\ OpsPrev = 0
    /\ OpsCur = One
    /\ ret.out = Returned(0)

\* C25: lag(var, t, n) raises whenever t - n is not a year of the panel, the
\* lag-base year with n = 1 included, and leaves the panel as it was; when
\* t - n is a year of the panel it returns get(var, t - n).
C25_LagUnknownYearFails ==
    (ret.called /\ arg.op = "lag") =>
        /\ heap[baseline] = base0
        /\ IF arg.t - arg.n \in YearSet(base0)
           THEN ret.out = Returned(get(base0, arg.var, arg.t - arg.n))
           ELSE ret.out.kind = "KeyError"

\* lag for the lag-base year with n = 1 has raised
C25_Witness ==
    /\ ret.called /\ arg.op = "lag"
    /\ arg.t = Head(years(base0)) /\ arg.n = 1
    /\ ret.out.kind = "KeyError"
    /\ heap[baseline] = base0


\* ------------------------------------------------------------------ the frame of the ensure pass
\* C26: the ensure pass changes only cells that were missing or exactly 0.0: a
\* non-zero cell of a variable with a fallback and every column of another
\* variable the file had are left as they were; afterwards every registry
\* variable has a column, and a column added without a fallback holds 0.0 in
\* every year.
C26_EnsureFrame ==
    arg.runs >= 1 =>
        /\ YearSet(base0) = YearSet(file)
        /\ \A c \in DOMAIN file.col, y \in YearSet(file) :
               \/ base0.col[c][y] = file.col[c][y]
               \/ c \in SeqToSet(ensured) /\ file.col[c][y] = 0
        /\ DOMAIN base0.col = DOMAIN file.col \cup SeqToSet(all_variables)
        /\ \A c \in DOMAIN base0.col \ DOMAIN file.col :
               c \notin SeqToSet(ensured) => \A y \in YearSet(base0) : base0.col[c][y] = 0

\* the pass has run on a file that held a non-zero cell of a variable with a
\* fallback; it has filled a missing column of another such variable and has
\* added a column without a fallback
C26_Witness ==
    /\ arg.runs >= 1
    /\ \E c \in SeqToSet(ensured) \cap DOMAIN file.col, y \in YearSet(file) :
           file.col[c][y] # 0 /\ base0.col[c][y] = file.col[c][y]
    /\ \E c \in SeqToSet(ensured) \ DOMAIN file.col, y \in YearSet(file) :
           base0.col[c][y] # 0
    /\ \E c \in DOMAIN base0.col \ (DOMAIN file.col \cup SeqToSet(ensured)) :
           \A y \in YearSet(base0) : base0.col[c][y] = 0

\* ------------------------------------------------------------------ C27
\* C27: after solve_year(t), TGH_(t) satisfies its equation on the solved panel:
\* in a panel handed to packaging, TGH_(t) of every solved year equals
\* lag(TGH_, t) * clamped exp(dln(PC_, t)) * (1 + TGH_X(t)/100) computed from the
\* final PC_(t) of that year.
C27_TransfersOnSolvedPanel ==
    \A f \in Frames :
        f.pc = "package" =>
            \A t \in SeqToSet(f.yrs) :
                get(heap[f.sref], "TGH_", t) = TransfersEquation(heap[f.sref], t)

\* ------------------------------------------------------------------ C28
\* get_baseline_indicators(): the indicators of the cached baseline panel
get_baseline_indicators ==
    _extract_indicators(heap[baseline], sim_years(heap[baseline]))

\* C28: the baseline indicators simulate returns do not depend on the instruments:
\* every output returned equals get_baseline_indicators() in them, and these are the
\* indicators of the loaded baseline as it was before any solve.
C28_BaselineIndicators ==
    \A f \in Frames :
        (f.pc = "done" /\ f.out.kind = "SimulationOutput") =>
            /\ f.out.baseline_indicators = get_baseline_indicators
            /\ f.out.baseline_indicators = _extract_indicators(base0, sim_years(base0))

\* a scenario with a changed instrument has returned, over two years, with scenario
\* indicators other than the baseline's, after a call with other instruments
C28_Witness ==
    \E f \in Frames :
        /\ f.pc = "done" /\ f.iv = Shocked
        /\ f.out.kind = "SimulationOutput"
        /\ Len(f.out.years) = 2
        /\ f.out.scenario_indicators # f.out.baseline_indicators
        /\ \E iv \in DOMAIN seen : iv # Shocked /\ seen[iv].first.kind = "SimulationOutput"

\* ------------------------------------------------------------------ the lazy baseline
\* simulate up to its two copies of self.baseline, the property taken apart into
\* the steps other threads can come between: the test of self._baseline, the
\* assignment in load_baseline, the reading of the argument of _ensure_variables,
\* each ensure(var, fn) call, the rest of the pass, the return and the copy.
\* Fields of the frame: it is the access of the call (1 baseline_state, 2
\* scenario_state), sref the panel the pass works on, vi the next ensure call,
\* bref the panel the property returned.  arg is the set of the panels on which a
\* pass has been completed.

\* the panel loader.load_state() makes for thread th
LoadRef(th) == 10 + th

InitLazy ==
    /\ threads = 2
    /\ todo = 2
    /\ file \in { FlatFile(NYears), FlatFile(NYears - 1) }
    /\ InitEngine
    /\ arg = {}
    /\ ret = NotCalled

\* simulate({}) reaches baseline_state = self.baseline.copy()
Lazy_Call(th) ==
    /\ frame[th].pc = "idle"
    /\ todo > 0
    /\ todo' = todo - 1
    /\ frame' = [frame EXCEPT ![th] = [@ EXCEPT !.pc = "test", !.it = 1]]
    /\ UNCHANGED << threads, file, baseline, heap, base0, seen, arg, ret >>

\* if self._baseline is None
Lazy_Test(th) ==
    /\ frame[th].pc = "test"
    /\ frame' = [frame EXCEPT ![th] =
           [@ EXCEPT !.pc = IF baseline = 0 THEN "load" ELSE "return"]]
    /\ UNCHANGED << threads, todo, file, baseline, heap, base0, seen, arg, ret >>

\* self._baseline = self._loader.load_state()
Lazy_Load(th) ==
    /\ frame[th].pc = "load"
    /\ heap' = (LoadRef(th) :> file) @@ heap
    /\ baseline' = LoadRef(th)
    /\ frame' = [frame EXCEPT ![th] = [@ EXCEPT !.pc = "arg"]]
    /\ UNCHANGED << threads, todo, file, base0, seen, arg, ret >>

\* self._ensure_variables(self._baseline): the argument is read from the attribute
Lazy_Arg(th) ==
    /\ frame[th].pc = "arg"
    /\ frame' = [frame EXCEPT ![th] =
           [@ EXCEPT !.pc = "ensure", !.sref = baseline, !.vi = 1]]
    /\ UNCHANGED << threads, todo, file, baseline, heap, base0, seen, arg, ret >>

\* one ensure(var, fn) call of the pass
Lazy_Ensure(th) ==
    /\ frame[th].pc = "ensure"
    /\ frame[th].vi <= Len(ensured)
    /\ LET f == frame[th]
       IN  /\ heap' = [heap EXCEPT ![f.sref] = ensure(@, ensured[f.vi])]
           /\ frame' = [frame EXCEPT ![th] = [@ EXCEPT !.vi = f.vi + 1]]
    /\ UNCHANGED << threads, todo, file, baseline, base0, seen, arg, ret >>

\* the loop over registry.all_variables that ends the pass
Lazy_EnsureRest(th) ==
    /\ frame[th].pc = "ensure"
    /\ frame[th].vi > Len(ensured)
    /\ LET f == frame[th]
       IN  /\ heap' = [heap EXCEPT ![f.sref] = AddAll(@, all_variables)]
           /\ arg' = arg \cup {f.sref}
           /\ frame' = [frame EXCEPT ![th] = [@ EXCEPT !.pc = "return"]]
    /\ UNCHANGED << threads, todo, file, baseline, base0, seen, ret >>

\* return self._baseline
Lazy_Return(th) ==
    /\ frame[th].pc = "return"
    /\ frame' = [frame EXCEPT ![th] = [@ EXCEPT !.pc = "copy", !.bref = baseline]]
    /\ UNCHANGED << threads, todo, file, baseline, heap, base0, seen, arg, ret >>

\* .copy() of the panel the property returned; the second access follows the first
Lazy_Copy(th) ==
    /\ frame[th].pc = "copy"
    /\ LET f == frame[th]
           c == copy(heap, f.bref, IF f.it = 1 THEN BRef(th) ELSE SRef(th))
       IN  /\ heap' = c.heap
           /\ frame' = [frame EXCEPT ![th] =
                  IF f.it = 1 THEN [f EXCEPT !.pc = "test", !.it = 2]
                  ELSE [f EXCEPT !.pc = "done"]]
    /\ UNCHANGED << threads, todo, file, baseline, base0, seen, arg, ret >>

NextLazy ==
    \/ \E th \in 1..threads : Lazy_Call(th)
    \/ \E th \in 1..threads : Lazy_Test(th)
    \/ \E th \in 1..threads : Lazy_Load(th)
    \/ \E th \in 1..threads : Lazy_Arg(th)
    \/ \E th \in 1..threads : Lazy_Ensure(th)
    \/ \E th \in 1..threads : Lazy_EnsureRest(th)
    \/ \E th \in 1..threads : Lazy_Return(th)
    \/ \E th \in 1..threads : Lazy_Copy(th)

\* two threads call simulate on an engine whose baseline is not loaded yet
SpecLazy == InitLazy /\ [][NextLazy]_vars

\* C29: every panel obtained through the baseline property has had the
\* ensure-variables pass completed on it: a panel a simulate call is about to copy
\* is one on which a pass has ended, and it holds what the pass makes of the file.
C29_EnsuredBeforeUse ==
    \A f \in Frames :
        f.pc = "copy" =>
            /\ f.bref \in arg
            /\ heap[f.bref] = _ensure_variables(file)

\* ------------------------------------------------------------------ panel operations in sequence
\* add_var, set, copy and apply_instruments in any order on a complete panel
\* that has no ITPC0R_, CSSFR_ or CSSHR_ column.  base0 is the panel at the start,
\* arg counts the operations, seen[r] is the set of the cells <<var, t>> of panel
\* r a set call has written, ret the last operation with the panel before and
\* after it.

\* the instrument_values arguments: none, or one entry
PanelDicts == { << >> } \cup DictsOfLen(1, ApplyEntrySet)

InitPanel ==
    /\ threads = 1
    /\ todo = 0
    /\ file = FlatFile(NYears)
    /\ baseline = 0
    /\ heap = (OriginalRef :> SmallPanel)
    /\ frame = [th \in 1..threads |-> IdleFrame]
    /\ base0 = SmallPanel
    /\ seen = (OriginalRef :> {})
    /\ arg = [ops |-> 0]
    /\ ret = NotCalled

LastOp(op, var, before, after) ==
    [called |-> TRUE, op |-> op, var |-> var, before |-> before, after |-> after]

\* state.add_var(var) on panel r
PanelAddVar(r, var) ==
    /\ arg.ops < MaxOps
    /\ heap' = [heap EXCEPT ![r] = add_var(@, var, 0)]
    /\ ret' = LastOp("add_var", var, heap[r], add_var(heap[r], var, 0))
    /\ arg' = [arg EXCEPT !.ops = @ + 1]
    /\ UNCHANGED << threads, todo, file, baseline, frame, base0, seen >>

\* state.set(var, t, value) on panel r, t a known year
PanelSet(r, var, t, value) ==
    /\ arg.ops < MaxOps
    /\ heap' = [heap EXCEPT ![r] = set(@, var, t, value)]
    /\ seen' = [seen EXCEPT ![r] = @ \cup {<<var, t>>}]
    /\ ret' = LastOp("set", var, heap[r], set(heap[r], var, t, value))
    /\ arg' = [arg EXCEPT !.ops = @ + 1]
    /\ UNCHANGED << threads, todo, file, baseline, frame, base0 >>

\* c = state.copy() of panel r, once
PanelCopy(r) ==
    /\ arg.ops < MaxOps
    /\ OriginalRef + 1 \notin DOMAIN heap
    /\ LET c == copy(heap, r, OriginalRef + 1)
       IN  /\ heap' = c.heap
           /\ seen' = (c.ref :> seen[r]) @@ seen
           /\ ret' = LastOp("copy", "", heap[r], c.heap[c.ref])
    /\ arg' = [arg EXCEPT !.ops = @ + 1]
    /\ UNCHANGED << threads, todo, file, baseline, frame, base0 >>

\* apply_instruments(state, d, state.sim_years) on panel r
PanelApply(r, d) ==
    /\ arg.ops < MaxOps
    /\ LET p == heap[r]
           q == apply_instruments(p, d, sim_years(p))
           cols == DictKeys(d) \cup { m[1] : m \in Mapped(d) }
       IN  /\ heap' = [heap EXCEPT ![r] = q]
           /\ seen' = [seen EXCEPT ![r] =
                  @ \cup { <<c, t>> : c \in cols, t \in SeqToSet(sim_years(p)) }]
           /\ ret' = LastOp("apply_instruments", "", p, q)
    /\ arg' = [arg EXCEPT !.ops = @ + 1]
    /\ UNCHANGED << threads, todo, file, baseline, frame, base0 >>

NextPanel ==
    \/ \E r \in DOMAIN heap : \E var \in {"UR_", "NEW_", "ITPC0R_"} : PanelAddVar(r, var)
    \/ \E r \in DOMAIN heap :
           \E var \in {"GDP_", "NEW_"}, t \in YearSet(heap[r]), value \in {0, Fx(2, 1)} :
               PanelSet(r, var, t, value)
    \/ \E r \in DOMAIN heap : PanelCopy(r)
    \/ \E r \in DOMAIN heap : \E d \in PanelDicts : PanelApply(r, d)

\* up to MaxOps operations on a panel and its copy
SpecPanel == InitPanel /\ [][NextPanel]_vars

\* every column of p has one number for every known year
Complete(p) ==
    \A c \in DOMAIN p.col :
        /\ DOMAIN p.col[c] = YearSet(p)
        /\ \A y \in YearSet(p) : ~IsNaN(p.col[c][y])

\* C30: panel completeness is kept by every sequence of add_var, set, copy and
\* apply_instruments calls on a complete panel: the known years are unchanged,
\* every column has a defined value for every known year, a column the sequence
\* introduced holds 0.0 in every year not explicitly written, and add_var on an
\* existing column changes nothing.
C30_PanelComplete ==
    /\ \A r \in DOMAIN heap :
           LET q == heap[r]
           IN  /\ q.yrs = base0.yrs
               /\ Complete(q)
               /\ \A c \in (DOMAIN q.col) \ (DOMAIN base0.col) :
                      \A y \in YearSet(q) : <<c, y>> \notin seen[r] => q.col[c][y] = 0
    /\ (ret.called /\ ret.op = "add_var" /\ ret.var \in DOMAIN ret.before.col)
           => ret.after = ret.before

====
